---- MODULE Spec2Model ----
(***************************************************************************)
(* Two-tier analysis request lifecycle of the Inkline / Think Social       *)
(* browser extension.                                                      *)
(*                                                                         *)
(*   SpecBG     the background service worker: the message listener, the   *)
(*              handlers handleQuickScan / handleDeepAnalysis with their   *)
(*              awaits as interleaving points, chrome.storage.local (the   *)
(*              result cache and the daily counter); the backend answers   *)
(*              as the environment.                                        *)
(*   SpecE2E    one message at a time, with the backend endpoint           *)
(*              POST /api/analyze and its Redis cache behind fetch.        *)
(*   SpecStore  SpecE2E with a backing store (chrome.storage.local, Redis)  *)
(*              whose reads and writes can fail.                           *)
(*   SpecAnalyze  the backend's quickScan and analyzePost: adapter         *)
(*              fan-out, judgment call, validation and merges.             *)
(*   SpecFanout  analyzePost with its Promise.all taken apart: the two      *)
(*              adapters start, settle in any order, then are gathered.    *)
(*   SpecQuota  checkRateLimit and getRemainingRequests called one call    *)
(*              after another.                                             *)
(*   SpecClient the content script: detection passes, badges, panels,      *)
(*              hover / click / auto escalation and the two callbacks.     *)
(***************************************************************************)
EXTENDS Integers, Sequences, FiniteSets, TLC

(***************************************************************************)
(* Program constants                                                       *)
(***************************************************************************)
CACHE_TTL == 24 * 60 * 60 * 1000

DAILY_LIMIT == 200

REDIS_TTL == 24 * 60 * 60

DayMs == 24 * 60 * 60 * 1000

SummaryCut == 80

MinTextLen == 10

\* analyzePost: isSubstantive = text.length > 60
SearchMinLen == 60

\* Confidence values in hundredths: the default of validateAnalysisResult,
\* the default of quickScan, the confidence of both failure fallbacks
DefaultConfidence == 70

QuickDefaultConfidence == 50

FallbackConfidence == 30

\* observePosts: the delay of the debounce timer, ms
DebounceMs == 300

(***************************************************************************)
(* Bounds of the model                                                     *)
(***************************************************************************)
MaxTicks == 2

MaxMsgs == 2

MaxDays == 2

MaxComments == 1

MaxExtra == 2

MaxSends == 2

MaxFlight == 2

\* Results the search adapter returns at most
MaxResults == 3

\* Thirds of the debounce delay that pass on the page's clock
MaxElapse == 7

TickMs == CACHE_TTL \div 2

StartMs == DayMs

(***************************************************************************)
(* Values                                                                  *)
(***************************************************************************)
None == "none"

Ratings == {"green", "amber", "red"}

\* Post texts as sequences of UTF-16 code units: "Fed holds." and "Rates rise"
TextA == <<70, 101, 100, 32, 104, 111, 108, 100, 115, 46>>

TextB == <<82, 97, 116, 101, 115, 32, 114, 105, 115, 101>>

Texts == {TextA, TextB}

\* An AnalysisResult, reduced to the fields the extension reads: overall,
\* confidence (in hundredths), the length of summary, and commentAnalysis
\* ("absent", present with an empty overallTone, present with a tone).
VerdictPlain == [overall |-> "green", confidence |-> 90, summary |-> 40, comment |-> "absent"]

VerdictRich == [overall |-> "amber", confidence |-> 70, summary |-> 120, comment |-> "tone"]

Verdicts == {VerdictPlain, VerdictRich}

\* A verdict whose commentAnalysis carries an empty overallTone
VerdictToneless == [overall |-> "red", confidence |-> 50, summary |-> 40, comment |-> "notone"]

\* The verdict analyzePost returns from its catch block after the judgment
\* has failed: all amber, confidence 0.3, the 72 characters of its summary,
\* no commentAnalysis
VerdictFallback ==
    [overall |-> "amber", confidence |-> FallbackConfidence, summary |-> 72,
     comment |-> "absent"]

\* The verdicts analyzePost of the backend can return
SrvVerdicts == Verdicts \cup {VerdictToneless}

NoEntry == [present |-> FALSE]

NoRec == [present |-> FALSE]

Min(a, b) == IF a < b THEN a ELSE b

Max(a, b) == IF a > b THEN a ELSE b

(***************************************************************************)
(* hashText: 32-bit string hash, rendered in base 36 behind "ts_"          *)
(***************************************************************************)
\* One round  hash = ((hash << 5) - hash) + char; hash = hash & hash  on a
\* 32-bit value kept as two 16-bit halves <<hi, lo>> (two's complement).
HashStep(h, c) ==
    LET lo31 == 31 * h[2] + c
        lo   == lo31 % 65536
        hi   == (31 * h[1] + (lo31 \div 65536)) % 65536
    IN  <<hi, lo>>

RECURSIVE HashFold(_, _, _)
HashFold(text, i, h) ==
    IF i > Len(text) THEN h ELSE HashFold(text, i + 1, HashStep(h, text[i]))

\* The signed 32-bit value of the two halves
ToInt32(h) == IF h[1] >= 32768 THEN (h[1] - 65536) * 65536 + h[2] ELSE h[1] * 65536 + h[2]

RECURSIVE Base36(_)
Base36(n) == IF n < 36 THEN <<n>> ELSE Append(Base36(n \div 36), n % 36)

\* Math.abs(hash).toString(36) as a sequence of base-36 digits; Math.abs of
\* -2^31 is 2^31 = "zik0zk"
AbsBase36(v) ==
    IF v = (-2147483647) - 1 THEN <<35, 18, 20, 0, 35, 20>>
    ELSE Base36(IF v < 0 THEN -v ELSE v)

hashText(text) == <<"ts_">> \o AbsBase36(ToInt32(HashFold(text, 1, <<0, 0>>)))

\* generateCacheKey of the backend: a SHA-256 prefix of the text, taken as
\* collision free
generateCacheKey(text) == <<"ts:analysis:", text>>

(***************************************************************************)
(* State                                                                   *)
(***************************************************************************)
VARIABLES
    now,          \* Date.now() in ms
    rateRec,      \* chrome.storage.local[RATE_LIMIT_KEY]
    cache,        \* chrome.storage.local[key] for the hashText keys
    redis,        \* the backend's Redis store, by generateCacheKey
    redisUp,      \* whether the backend has a Redis client (REDIS_URL set)
    handlers,     \* the listener's running handlers, one record per slot
    msgs,         \* number of messages received so far
    allowedOn,    \* history: checkRateLimit calls that returned true, per day
    quickCounted, \* history: texts whose quick scan passed checkRateLimit
    quickAnswered,\* history: texts for which a quickResult was delivered
    deepBy,       \* history: per cache key, the comment count of the deep
                  \* request whose verdict the entry holds (-1: none)
    seqCalls,     \* sequential run: checkRateLimit calls made on the current date
    seqAllowed,   \* sequential run: those of them that returned true
    last,         \* sequential run: the outcome of the last call
    ap,           \* backend: the call of quickScan / analyzePost under way
    remaining,    \* sequential run: the answer of the GET_REMAINING just made, else -1
    textLen,       \* page: length of the post's text (0: no such article)
    domComments,   \* page: number of comments extractComments finds in the article
    badge,         \* page: the badge element with data-post-id, per post
    panel,         \* page: the element with data-for-post, per post
    visible,       \* page: posts whose panel has class ts-panel-visible
    mouse,         \* page: the badge the pointer is over
    hoverTimer,    \* setupBadgeInteraction: the 300 ms timer is running
    processedPosts,
    pendingPosts,
    postMetaMap,
    activePanel,
    debounceTimer, \* observePosts: the 300 ms timer is running
    quickOut,      \* QUICK_SCAN messages sent whose callback has not run
    quickSent,     \* history: QUICK_SCAN messages sent, per post
    deepOut,       \* DEEP_ANALYZE messages in flight whose callback holds the
                   \* PostMeta object that postMetaMap maps the post to
    deepStale,     \* DEEP_ANALYZE messages in flight whose callback holds a
                   \* PostMeta object that postMetaMap.set has replaced
    lastTrigger,   \* history: the last triggerDeepAnalysis call and whether it sent
    rating,        \* data-rating of the badge of each post (none: not set)
    timers,        \* the due times of the pending timeouts of observePosts
    lastAdd,       \* history: when the observer last saw added nodes (-1: never)
    passAt,        \* history: when processVisiblePosts last ran (-1: never)
    lastPass       \* history: the posts the last processVisiblePosts found in
                   \* pendingPosts or processedPosts

bgVars == <<now, rateRec, cache, redis, redisUp, handlers, msgs, allowedOn,
            quickCounted, quickAnswered, deepBy>>

seqVars == <<seqCalls, seqAllowed, last, ap, remaining>>

clientVars == <<textLen, domComments, badge, panel, visible, mouse, hoverTimer,
                processedPosts, pendingPosts, postMetaMap, activePanel,
                debounceTimer, quickOut, quickSent, deepOut, deepStale,
                lastTrigger, lastPass, rating, timers, lastAdd, passAt>>

vars == <<bgVars, seqVars, clientVars>>

(***************************************************************************)
(* Backend analysis (analyze.ts): values                                   *)
(***************************************************************************)
\* validateAnalysisResult: the five dimensions of a deep verdict
Dimensions == {"perspective", "verification", "balance", "source", "tone"}

\* Confidence values are hundredths; a response carries a number or none
NoConf == [num |-> FALSE, val |-> 0]

ConfGiven == {NoConf} \cup {[num |-> TRUE, val |-> c] : c \in {0 - 50, 50, 100, 150}}

\* The stance the judgment attaches to the article at index k ("" is a
\* relevantArticles element without a stance)
StanceAt(k) == IF k % 3 = 0 THEN "counter" ELSE IF k % 3 = 1 THEN "supporting" ELSE ""

RECURSIVE MarksOf(_, _)
\* The relevantArticles array that marks the indices of set S, ascending
\* from index k; index MaxResults lies outside every result list
MarksOf(S, k) ==
    IF k > MaxResults THEN <<>>
    ELSE IF k \in S THEN <<[index |-> k, stance |-> StanceAt(k)]>> \o MarksOf(S, k + 1)
    ELSE MarksOf(S, k + 1)

MarkLists == {MarksOf(S, 0) : S \in SUBSET (0 .. MaxResults)}

\* A parsed judgment response that passes validateAnalysisResult untouched
GoodDims == [d \in Dimensions |-> "green"]

BaseReply == [kind |-> "json", overall |-> "green", dims |-> GoodDims, summary |-> TRUE,
              conf |-> [num |-> TRUE, val |-> 50], sources |-> "empty",
              marksGiven |-> FALSE, marks |-> <<>>, comment |-> "absent"]

\* create() rejects, the content is empty, JSON.parse throws
FailedReplies == {[BaseReply EXCEPT !.kind = k] : k \in {"throws", "empty", "unparsable"}}

\* JSON with one field that validateAnalysisResult or quickScan looks at
FaultyReplies ==
    {[BaseReply EXCEPT !.overall = "purple"], [BaseReply EXCEPT !.summary = FALSE]}
    \cup {[BaseReply EXCEPT !.dims = [GoodDims EXCEPT ![d] = f]] :
             d \in Dimensions, f \in {"purple", "nolabel", "missing"}}

RatedReplies ==
    {[BaseReply EXCEPT !.overall = o, !.conf = c] : o \in Ratings \cup {"purple"}, c \in ConfGiven}

\* counterSources: no array, an empty array, an array with one source of the
\* model's own; relevantArticles: no array or an array of marks;
\* commentAnalysis: absent, an object with or without an overallTone
MergeReplies ==
    {[BaseReply EXCEPT !.sources = s, !.marksGiven = g, !.marks = m, !.comment = k] :
        s \in {"absent", "empty", "given"}, g \in BOOLEAN, m \in MarkLists,
        k \in {"absent", "tone", "notone"}}

JudgeReplies ==
    FailedReplies \cup FaultyReplies \cup RatedReplies
    \cup {r \in MergeReplies : ~r.marksGiven => r.marks = <<>>}

\* The responses to the quick prompt: overall, summary and confidence only
QuickJudgeReplies == FailedReplies \cup FaultyReplies \cup RatedReplies

\* searchTopic results, each with or without a title and url
ResultLists ==
    {<<>>} \cup {[k \in 1 .. n |-> [titled |-> k > 1 \/ first]] :
                    n \in 1 .. MaxResults, first \in BOOLEAN}

NoReply == [kind |-> None]

NoOut == [present |-> FALSE]

NoCalls == [vision |-> 0, search |-> 0, judge |-> 0]

\* No call of the analysis is under way
ApIdle == [via |-> None, depth |-> None, fn |-> None, pc |-> "idle", len |-> 0,
           visuals |-> "none", reqComments |-> 0, ncom |-> 0,
           visionUp |-> FALSE, searchUp |-> FALSE,
           vfly |-> "idle", sfly |-> "idle", vout |-> None, sout |-> None,
           described |-> FALSE, results |-> <<>>, calls |-> NoCalls, mode |-> None,
           reply |-> NoReply, out |-> NoOut]

(***************************************************************************)
(* Content script: values                                                  *)
(***************************************************************************)
\* Two posts; the article of p2 lies inside the article of p1 (as a
\* role="article" comment lies inside its post), p1 first in document order
Ids == {"p1", "p2"}

Order == <<"p1", "p2">>

Nested(p) == IF p = "p1" THEN {"p2"} ELSE {}

\* The posts whose badge the user points at and clicks
Pointed == {"p1"}

NoMeta == [present |-> FALSE]

\* The PostMeta object processPost stores
NewMeta(ncom) ==
    [present |-> TRUE, comments |-> ncom, quickResult |-> None,
     deepResult |-> FALSE, deepPending |-> FALSE]

NoTrigger == [post |-> None, sent |-> FALSE]

\* The page before any article is found: init has run processVisiblePosts on
\* nothing and started the observer
InitPage ==
    /\ textLen = [p \in Ids |-> 0]
    /\ domComments = [p \in Ids |-> 0]
    /\ badge = [p \in Ids |-> "none"]
    /\ panel = [p \in Ids |-> "none"]
    /\ visible = {}
    /\ mouse = None
    /\ hoverTimer = [p \in Ids |-> FALSE]
    /\ processedPosts = {}
    /\ pendingPosts = {}
    /\ postMetaMap = [p \in Ids |-> NoMeta]
    /\ activePanel = None
    /\ debounceTimer = FALSE
    /\ quickOut = [p \in Ids |-> 0]
    /\ quickSent = [p \in Ids |-> 0]
    /\ deepOut = [p \in Ids |-> 0]
    /\ deepStale = [p \in Ids |-> 0]
    /\ lastTrigger = NoTrigger
    /\ lastPass = {}
    /\ rating = [p \in Ids |-> None]
    /\ timers = {}
    /\ lastAdd = 0 - 1
    /\ passAt = 0 - 1

Today(t) == t \div DayMs

Days == 0 .. Max(MaxDays + 1, MaxTicks + 1)

\* The listener runs at most two handlers at a time in this model
Slots == {1, 2}

NoData == [present |-> FALSE]

NoResp == [present |-> FALSE]

NoQuick == [present |-> FALSE]

NoAnalysis == [present |-> FALSE]

Idle == [pc |-> "idle", kind |-> None, text |-> TextA, ncom |-> 0,
         entry |-> NoEntry, rec |-> NoRec, today |-> 0, sentry |-> NoEntry,
         data |-> NoData, resp |-> NoResp]

Kinds == {"QUICK_SCAN", "DEEP_ANALYZE", "ANALYZE_POST"}

IsDeepKind(k) == k \in {"DEEP_ANALYZE", "ANALYZE_POST"}

(***************************************************************************)
(* Pure parts of the background worker                                     *)
(***************************************************************************)
\* Variant of Fresh: the age test written with <=
Fresh_Inclusive(entry, t) == entry.present /\ t - entry.timestamp <= CACHE_TTL

\* getCachedAnalysis, after the storage read: is the entry served?
Fresh(entry, t) == entry.present /\ t - entry.timestamp < CACHE_TTL

\* getCachedAnalysis, after the storage read: is the entry evicted?
Expired(entry, t) == entry.present /\ ~(t - entry.timestamp < CACHE_TTL)

\* Variant of RateAllowed: the ceiling test written with >
RateAllowed_OffByOne(rec, today) ==
    ~(rec.present /\ rec.date = today /\ rec.count > DAILY_LIMIT)

\* checkRateLimit, after the storage read: the value it returns
RateAllowed(rec, today) ==
    ~(rec.present /\ rec.date = today /\ rec.count >= DAILY_LIMIT)

\* Variant of getRemainingRequests: the date of the record is not looked at
getRemainingRequests_AnyDate(rec, today) ==
    IF rec.present THEN Max(0, DAILY_LIMIT - rec.count) ELSE DAILY_LIMIT

\* getRemainingRequests, after the storage read: the number it returns
getRemainingRequests(rec, today) ==
    IF rec.present /\ rec.date = today THEN Max(0, DAILY_LIMIT - rec.count)
    ELSE DAILY_LIMIT

\* Variant of RateAfter: a record of another date is incremented, not reset
RateAfter_NoReset(rec, today) ==
    IF rec.present
    THEN [present |-> TRUE, date |-> today, count |-> rec.count + 1]
    ELSE [present |-> TRUE, date |-> today, count |-> 1]

\* checkRateLimit, after the storage read: the record it writes when allowed
RateAfter(rec, today) ==
    IF rec.present /\ rec.date = today
    THEN [present |-> TRUE, date |-> today, count |-> rec.count + 1]
    ELSE [present |-> TRUE, date |-> today, count |-> 1]

\* handleQuickScan: the quick result cut out of a cached deep verdict
QuickOfCached(v) ==
    [present |-> TRUE, overall |-> v.overall,
     summary |-> Min(v.summary, SummaryCut), confidence |-> v.confidence]

\* quickScanAPI: the quick result taken from the backend's response body
QuickOfData(data) ==
    IF data.quick.present THEN data.quick
    ELSE [present |-> TRUE, overall |-> data.analysis.overall,
          summary |-> Min(data.analysis.summary, SummaryCut),
          confidence |-> data.analysis.confidence]

\* Variant of HasCommentData: any commentAnalysis object counts as comment data
HasCommentData_AnyObject(v) == v.comment # "absent"

\* handleDeepAnalysis: cached.commentAnalysis && cached.commentAnalysis.overallTone
HasCommentData(v) == v.comment = "tone"

\* Variant of CacheServes: the cached verdict is never taken
CacheServes_Never(v, ncom) == FALSE

\* handleDeepAnalysis: may the cached verdict be returned to this request?
CacheServes(v, ncom) == ncom = 0 \/ HasCommentData(v)

QuickResp(q, err, c) ==
    [present |-> TRUE, type |-> "QUICK_RESULT", quick |-> q, error |-> err, cached |-> c]

DeepResp(a, err, c) ==
    [present |-> TRUE, type |-> "ANALYSIS_RESULT", analysis |-> a, error |-> err, cached |-> c]

\* Variant of LimitError: the denial carries the message of a failed call
LimitError_Generic == "API error"

\* handleQuickScan: the error returned when checkRateLimit denies
LimitError == "Daily limit reached. Upgrade to Pro for unlimited."

\* Redis GET of a key written by SETEX key REDIS_TTL value
RedisGet(store, key, t) ==
    IF store[key].present /\ t - store[key].storedAt < REDIS_TTL * 1000
    THEN store[key] ELSE NoEntry

(***************************************************************************)
(* The background worker: chrome.runtime.onMessage listener                *)
(***************************************************************************)
FreeSlot == CHOOSE i \in Slots : handlers[i].pc = "idle" /\ \A j \in Slots : handlers[j].pc = "idle" => i <= j

Bump(f, x) == [f EXCEPT ![x] = @ + 1]

\* No handler is inside its final .then(sendResponse): that callback runs to
\* completion before anything else does
Quiet == \A j \in Slots : handlers[j].pc # "done"

\* A message arrives.  The listener starts the handler, which runs up to its
\* first await: getCachedAnalysis computes the key and reads the storage.
\* The content script sends DEEP_ANALYZE only for a post whose quick result
\* it has received; QUICK_SCAN and the legacy ANALYZE_POST carry no comments.
Receive(k, t, n) ==
    /\ Quiet
    /\ msgs < MaxMsgs
    /\ \E i \in Slots : handlers[i].pc = "idle"
    /\ k = "DEEP_ANALYZE" => t \in quickAnswered
    /\ k # "DEEP_ANALYZE" => n = 0
    /\ handlers' = [handlers EXCEPT ![FreeSlot] =
           [Idle EXCEPT !.pc = "cacheRead", !.kind = k, !.text = t, !.ncom = n,
                        !.entry = cache[hashText(t)]]]
    /\ msgs' = msgs + 1
    /\ UNCHANGED <<now, rateRec, cache, redis, redisUp, allowedOn, quickCounted, quickAnswered, deepBy, seqVars, clientVars>>

\* Variant of CacheHit: the guard is consulted (and counts) before the cache
\* is looked at
CacheHit_Counted(i) ==
    LET h == handlers[i] IN
    /\ h.pc = "cacheRead"
    /\ Quiet
    /\ Fresh(h.entry, now)
    /\ h.kind = "QUICK_SCAN" \/ CacheServes(h.entry.analysis, h.ncom)
    /\ rateRec' = IF h.kind = "QUICK_SCAN" /\ RateAllowed(rateRec, Today(now))
                  THEN RateAfter(rateRec, Today(now)) ELSE rateRec
    /\ handlers' = [handlers EXCEPT ![i] = [h EXCEPT !.pc = "done", !.entry = NoEntry,
           !.resp = IF h.kind = "QUICK_SCAN"
                    THEN QuickResp(QuickOfCached(h.entry.analysis), "", "true")
                    ELSE DeepResp(h.entry.analysis, "", "true")]]
    /\ UNCHANGED <<now, cache, redis, redisUp, msgs, allowedOn, quickCounted,
                   quickAnswered, deepBy, seqVars, clientVars>>

\* Variant of CacheHit: a deep request takes the cached verdict only when a
\* request with the same comments wrote it, and fetches otherwise
CacheHit_WriterOnly(i) ==
    LET h == handlers[i]
        own == h.kind = "QUICK_SCAN" \/ deepBy[hashText(h.text)] = h.ncom
    IN
    /\ h.pc = "cacheRead"
    /\ Quiet
    /\ Fresh(h.entry, now)
    /\ h.kind = "QUICK_SCAN" \/ CacheServes(h.entry.analysis, h.ncom)
    /\ handlers' = [handlers EXCEPT ![i] =
           IF own
           THEN [h EXCEPT !.pc = "done", !.entry = NoEntry,
                    !.resp = IF h.kind = "QUICK_SCAN"
                             THEN QuickResp(QuickOfCached(h.entry.analysis), "", "true")
                             ELSE DeepResp(h.entry.analysis, "", "true")]
           ELSE [h EXCEPT !.pc = "fetch", !.entry = NoEntry]]
    /\ UNCHANGED <<now, rateRec, cache, redis, redisUp, msgs, allowedOn, quickCounted,
                   quickAnswered, deepBy, seqVars, clientVars>>

\* getCachedAnalysis returns the entry read; the handler answers from it
CacheHit(i) ==
    LET h == handlers[i] IN
    /\ h.pc = "cacheRead"
    /\ Quiet
    /\ Fresh(h.entry, now)
    /\ h.kind = "QUICK_SCAN" \/ CacheServes(h.entry.analysis, h.ncom)
    /\ handlers' = [handlers EXCEPT ![i] = [h EXCEPT !.pc = "done", !.entry = NoEntry,
           !.resp = IF h.kind = "QUICK_SCAN"
                    THEN QuickResp(QuickOfCached(h.entry.analysis), "", "true")
                    ELSE DeepResp(h.entry.analysis, "", "true")]]
    /\ UNCHANGED <<now, rateRec, cache, redis, redisUp, msgs, allowedOn, quickCounted, quickAnswered, deepBy, seqVars, clientVars>>

\* handleDeepAnalysis: a cached verdict without comment data for a request
\* with comments; deepAnalyzeAPI issues the fetch
CacheIncomplete(i) ==
    LET h == handlers[i] IN
    /\ h.pc = "cacheRead"
    /\ Quiet
    /\ IsDeepKind(h.kind)
    /\ Fresh(h.entry, now)
    /\ ~CacheServes(h.entry.analysis, h.ncom)
    /\ handlers' = [handlers EXCEPT ![i] = [h EXCEPT !.pc = "fetch", !.entry = NoEntry]]
    /\ UNCHANGED <<now, rateRec, cache, redis, redisUp, msgs, allowedOn, quickCounted, quickAnswered, deepBy, seqVars, clientVars>>

\* getCachedAnalysis: the entry read has expired; storage.remove(key)
CacheEvict(i) ==
    LET h == handlers[i] IN
    /\ h.pc = "cacheRead"
    /\ Quiet
    /\ Expired(h.entry, now)
    /\ cache' = [cache EXCEPT ![hashText(h.text)] = NoEntry]
    /\ deepBy' = [deepBy EXCEPT ![hashText(h.text)] = -1]
    /\ handlers' = [handlers EXCEPT ![i] = [h EXCEPT !.pc = "evicted", !.entry = NoEntry]]
    /\ UNCHANGED <<now, rateRec, redis, redisUp, msgs, allowedOn, quickCounted, quickAnswered, seqVars, clientVars>>

\* Variant of AfterMiss: the deep handler goes through checkRateLimit as well
AfterMiss_Guarded(i) ==
    LET h == handlers[i] IN
    /\ handlers' = [handlers EXCEPT ![i] = [h EXCEPT !.pc = "rateRead",
           !.entry = NoEntry, !.today = Today(now), !.rec = rateRec]]
    /\ UNCHANGED <<now, rateRec, cache, redis, redisUp, msgs, allowedOn, quickCounted,
                   quickAnswered, deepBy, seqVars, clientVars>>

\* getCachedAnalysis returned null.  handleQuickScan enters checkRateLimit
\* (today, storage read); handleDeepAnalysis issues the fetch.
AfterMiss(i) ==
    LET h == handlers[i] IN
    /\ IF h.kind = "QUICK_SCAN"
       THEN handlers' = [handlers EXCEPT ![i] = [h EXCEPT !.pc = "rateRead",
                   !.entry = NoEntry, !.today = Today(now), !.rec = rateRec]]
       ELSE handlers' = [handlers EXCEPT ![i] = [h EXCEPT !.pc = "fetch", !.entry = NoEntry]]
    /\ UNCHANGED <<now, rateRec, cache, redis, redisUp, msgs, allowedOn, quickCounted, quickAnswered, deepBy, seqVars, clientVars>>

CacheMiss(i) ==
    /\ handlers[i].pc = "cacheRead"
    /\ Quiet
    /\ ~handlers[i].entry.present
    /\ AfterMiss(i)

AfterEvict(i) ==
    /\ handlers[i].pc = "evicted"
    /\ Quiet
    /\ AfterMiss(i)

\* checkRateLimit: count >= DAILY_LIMIT on today's record; handleQuickScan
\* returns the limit error
RateDeny(i) ==
    LET h == handlers[i] IN
    /\ h.pc = "rateRead"
    /\ Quiet
    /\ ~RateAllowed(h.rec, h.today)
    /\ handlers' = [handlers EXCEPT ![i] = [h EXCEPT !.pc = "done", !.rec = NoRec,
           !.resp = QuickResp(NoQuick, LimitError, "unset")]]
    /\ UNCHANGED <<now, rateRec, cache, redis, redisUp, msgs, allowedOn, quickCounted, quickAnswered, deepBy, seqVars, clientVars>>

\* checkRateLimit: storage.set of the incremented or reset record; once the
\* write is acknowledged it returns true and quickScanAPI issues the fetch
RateAllow(i) ==
    LET h == handlers[i] IN
    /\ h.pc = "rateRead"
    /\ Quiet
    /\ RateAllowed(h.rec, h.today)
    /\ rateRec' = RateAfter(h.rec, h.today)
    /\ allowedOn' = Bump(allowedOn, h.today)
    /\ quickCounted' = quickCounted \cup {h.text}
    /\ handlers' = [handlers EXCEPT ![i] = [h EXCEPT !.pc = "fetch", !.rec = NoRec]]
    /\ UNCHANGED <<now, cache, redis, redisUp, msgs, quickAnswered, deepBy, seqVars, clientVars>>

(***************************************************************************)
(* The backend endpoint POST /api/analyze, reached through fetch           *)
(***************************************************************************)
\* The request arrives and passes validation; getCachedAnalysis of the
\* backend reads Redis (null without a Redis client)
SrvReceive(i) ==
    LET h == handlers[i] IN
    /\ h.pc = "fetch"
    /\ Quiet
    /\ handlers' = [handlers EXCEPT ![i] = [h EXCEPT !.pc = "srvCache",
           !.sentry = IF redisUp THEN RedisGet(redis, generateCacheKey(h.text), now)
                      ELSE NoEntry]]
    /\ UNCHANGED <<now, rateRec, cache, redis, redisUp, msgs, allowedOn, quickCounted, quickAnswered, deepBy, seqVars, clientVars>>

\* Cached on the backend: respond {success, analysis: cached, cached: true}
SrvHit(i) ==
    LET h == handlers[i] IN
    /\ h.pc = "srvCache"
    /\ Quiet
    /\ h.sentry.present
    /\ handlers' = [handlers EXCEPT ![i] = [h EXCEPT !.pc = "fetched", !.sentry = NoEntry,
           !.data = [present |-> TRUE, analysis |-> h.sentry.analysis,
                     quick |-> NoQuick, cached |-> TRUE]]]
    /\ UNCHANGED <<now, rateRec, cache, redis, redisUp, msgs, allowedOn, quickCounted, quickAnswered, deepBy, seqVars, clientVars>>

\* Variant of SrvAnalyze: the fallback verdict is not stored
SrvAnalyze_SkipsFallback(i, v) ==
    LET h == handlers[i] IN
    /\ h.pc = "srvCache"
    /\ Quiet
    /\ ~h.sentry.present
    /\ redis' = IF redisUp /\ v # VerdictFallback
                THEN [redis EXCEPT ![generateCacheKey(h.text)] =
                         [present |-> TRUE, analysis |-> v, storedAt |-> now]]
                ELSE redis
    /\ handlers' = [handlers EXCEPT ![i] = [h EXCEPT !.pc = "fetched",
           !.data = [present |-> TRUE, analysis |-> v, quick |-> NoQuick, cached |-> FALSE]]]
    /\ UNCHANGED <<now, rateRec, cache, redisUp, msgs, allowedOn, quickCounted,
                   quickAnswered, deepBy, seqVars, clientVars>>

\* Not cached: analyzePost runs (adapters and judgment) and returns v, which
\* cacheAnalysis stores with SETEX before the response is written
SrvAnalyze(i, v) ==
    LET h == handlers[i] IN
    /\ h.pc = "srvCache"
    /\ Quiet
    /\ ~h.sentry.present
    /\ redis' = IF redisUp
                THEN [redis EXCEPT ![generateCacheKey(h.text)] =
                         [present |-> TRUE, analysis |-> v, storedAt |-> now]]
                ELSE redis
    /\ handlers' = [handlers EXCEPT ![i] = [h EXCEPT !.pc = "fetched",
           !.data = [present |-> TRUE, analysis |-> v, quick |-> NoQuick, cached |-> FALSE]]]
    /\ UNCHANGED <<now, rateRec, cache, redisUp, msgs, allowedOn, quickCounted, quickAnswered, deepBy, seqVars, clientVars>>

\* The backend seen from the worker alone: the response of fetch is
\* {success: true} with an analysis (as POST /api/analyze writes it) or with a
\* quickResult (AnalyzeResponse.quickResult)
Replies ==
    {[present |-> TRUE, analysis |-> v, quick |-> NoQuick, cached |-> FALSE] : v \in Verdicts}
    \cup {[present |-> TRUE, analysis |-> NoAnalysis, quick |-> QuickOfCached(v),
           cached |-> FALSE] : v \in Verdicts}

BackendReply(i, d) ==
    LET h == handlers[i] IN
    /\ h.pc = "fetch"
    /\ Quiet
    /\ d.quick.present => h.kind = "QUICK_SCAN"
    /\ handlers' = [handlers EXCEPT ![i] = [h EXCEPT !.pc = "fetched", !.data = d]]
    /\ UNCHANGED <<now, rateRec, cache, redis, redisUp, msgs, allowedOn,
                   quickCounted, quickAnswered, deepBy, seqVars, clientVars>>

\* fetch rejects or the response is not ok / not success: the API function
\* throws and the handler's catch returns the error
FetchFail(i) ==
    LET h == handlers[i] IN
    /\ h.pc = "fetch"
    /\ Quiet
    /\ handlers' = [handlers EXCEPT ![i] = [h EXCEPT !.pc = "done",
           !.resp = IF h.kind = "QUICK_SCAN"
                    THEN QuickResp(NoQuick, "API error", "unset")
                    ELSE DeepResp(NoAnalysis, "API error", "unset")]]
    /\ UNCHANGED <<now, rateRec, cache, redis, redisUp, msgs, allowedOn, quickCounted, quickAnswered, deepBy, seqVars, clientVars>>

\* quickScanAPI returns; handleQuickScan returns {quickResult, cached: false}
QuickFetched(i) ==
    LET h == handlers[i] IN
    /\ h.pc = "fetched"
    /\ Quiet
    /\ h.kind = "QUICK_SCAN"
    /\ handlers' = [handlers EXCEPT ![i] = [h EXCEPT !.pc = "done", !.data = NoData,
           !.resp = QuickResp(QuickOfData(h.data), "", "false")]]
    /\ UNCHANGED <<now, rateRec, cache, redis, redisUp, msgs, allowedOn, quickCounted, quickAnswered, deepBy, seqVars, clientVars>>

\* Variant of DeepFetched: the verdict is stored only when the key holds no
\* entry yet
DeepFetched_KeepsFirst(i) ==
    LET h == handlers[i] IN
    /\ h.pc = "fetched"
    /\ Quiet
    /\ IsDeepKind(h.kind)
    /\ cache' = IF cache[hashText(h.text)].present THEN cache
                ELSE [cache EXCEPT ![hashText(h.text)] =
                         [present |-> TRUE, analysis |-> h.data.analysis, timestamp |-> now]]
    /\ handlers' = [handlers EXCEPT ![i] = [h EXCEPT !.pc = "done", !.data = NoData,
           !.resp = DeepResp(h.data.analysis, "", "false")]]
    /\ deepBy' = [deepBy EXCEPT ![hashText(h.text)] = h.ncom]
    /\ UNCHANGED <<now, rateRec, redis, redisUp, msgs, allowedOn, quickCounted,
                   quickAnswered, seqVars, clientVars>>

\* deepAnalyzeAPI returns data.analysis; cacheAnalysis issues storage.set and,
\* once it is acknowledged, handleDeepAnalysis returns {analysis, cached: false}
DeepFetched(i) ==
    LET h == handlers[i] IN
    /\ h.pc = "fetched"
    /\ Quiet
    /\ IsDeepKind(h.kind)
    /\ cache' = [cache EXCEPT ![hashText(h.text)] =
                    [present |-> TRUE, analysis |-> h.data.analysis, timestamp |-> now]]
    /\ handlers' = [handlers EXCEPT ![i] = [h EXCEPT !.pc = "done", !.data = NoData,
           !.resp = DeepResp(h.data.analysis, "", "false")]]
    /\ deepBy' = [deepBy EXCEPT ![hashText(h.text)] = h.ncom]
    /\ UNCHANGED <<now, rateRec, redis, redisUp, msgs, allowedOn, quickCounted,
                   quickAnswered, seqVars, clientVars>>

\* sendResponse: the response leaves the worker and the slot is free again
Deliver(i) ==
    LET h == handlers[i] IN
    /\ h.pc = "done"
    /\ quickAnswered' = IF h.kind = "QUICK_SCAN" /\ h.resp.quick.present
                        THEN quickAnswered \cup {h.text} ELSE quickAnswered
    /\ handlers' = [handlers EXCEPT ![i] = Idle]
    /\ UNCHANGED <<now, rateRec, cache, redis, redisUp, msgs, allowedOn, quickCounted, deepBy, seqVars, clientVars>>

\* Time passes
Tick ==
    /\ Quiet
    /\ now < StartMs + MaxTicks * TickMs
    /\ now' = now + TickMs
    /\ UNCHANGED <<rateRec, cache, redis, redisUp, handlers, msgs, allowedOn, quickCounted, quickAnswered, deepBy, seqVars, clientVars>>

\* The counter records a worker restart can find in the storage.  The page
\* outlives the worker: TextA is a post whose quick scan was counted and
\* answered before this start of the worker, TextB is not.
InitRecs ==
    {NoRec}
    \cup {[present |-> TRUE, date |-> Today(StartMs), count |-> c] :
             c \in {DAILY_LIMIT - 1, DAILY_LIMIT}}

InitSeq ==
    /\ seqCalls = 0
    /\ seqAllowed = 0
    /\ last = [present |-> FALSE]
    /\ remaining = 0 - 1

InitBG ==
    /\ now = StartMs
    /\ rateRec \in InitRecs
    /\ cache = [k \in {hashText(t) : t \in Texts} |-> NoEntry]
    /\ redis = [k \in {generateCacheKey(t) : t \in Texts} |-> NoEntry]
    /\ redisUp = TRUE
    /\ handlers = [i \in Slots |-> Idle]
    /\ msgs = 0
    /\ allowedOn = [d \in Days |-> IF rateRec.present /\ rateRec.date = d
                                   THEN rateRec.count ELSE 0]
    /\ quickCounted = {TextA}
    /\ quickAnswered = {TextA}
    /\ deepBy = [k \in {hashText(t) : t \in Texts} |-> -1]
    /\ InitSeq
    /\ ap = ApIdle
    /\ InitPage

NextBG ==
    \/ \E k \in Kinds, t \in Texts, n \in 0 .. MaxComments : Receive(k, t, n)
    \/ \E i \in Slots : CacheHit(i)
    \/ \E i \in Slots : CacheIncomplete(i)
    \/ \E i \in Slots : CacheEvict(i)
    \/ \E i \in Slots : CacheMiss(i)
    \/ \E i \in Slots : AfterEvict(i)
    \/ \E i \in Slots : RateDeny(i)
    \/ \E i \in Slots : RateAllow(i)
    \/ \E i \in Slots, d \in Replies : BackendReply(i, d)
    \/ \E i \in Slots : FetchFail(i)
    \/ \E i \in Slots : QuickFetched(i)
    \/ \E i \in Slots : DeepFetched(i)
    \/ \E i \in Slots : Deliver(i)
    \/ Tick

\* The background worker beside any backend, two handlers at a time
SpecBG == InitBG /\ [][NextBG]_vars

\* The worker starts over an old store: chrome.storage.local still holds the
\* verdict for TextA that an earlier run cached CACHE_TTL ago
InitEvict ==
    /\ now = StartMs
    /\ rateRec \in InitRecs
    /\ cache = [k \in {hashText(t) : t \in Texts} |->
                  IF k = hashText(TextA)
                  THEN [present |-> TRUE, analysis |-> VerdictPlain,
                        timestamp |-> StartMs - CACHE_TTL]
                  ELSE NoEntry]
    /\ redis = [k \in {generateCacheKey(t) : t \in Texts} |-> NoEntry]
    /\ redisUp = TRUE
    /\ handlers = [i \in Slots |-> Idle]
    /\ msgs = 0
    /\ allowedOn = [d \in Days |-> IF rateRec.present /\ rateRec.date = d
                                   THEN rateRec.count ELSE 0]
    /\ quickCounted = {TextA}
    /\ quickAnswered = {TextA}
    /\ deepBy = [k \in {hashText(t) : t \in Texts} |-> IF k = hashText(TextA) THEN 0 ELSE 0 - 1]
    /\ InitSeq
    /\ ap = ApIdle
    /\ InitPage

SpecEvict == InitEvict /\ [][NextBG]_vars

AllIdle == \A j \in Slots : handlers[j].pc = "idle"

\* The worker and the backend endpoint together, one request after another
NextE2E ==
    \/ \E k \in Kinds, t \in Texts, n \in 0 .. MaxComments : AllIdle /\ Receive(k, t, n)
    \/ \E i \in Slots : CacheHit(i)
    \/ \E i \in Slots : CacheIncomplete(i)
    \/ \E i \in Slots : CacheEvict(i)
    \/ \E i \in Slots : CacheMiss(i)
    \/ \E i \in Slots : AfterEvict(i)
    \/ \E i \in Slots : RateDeny(i)
    \/ \E i \in Slots : RateAllow(i)
    \/ \E i \in Slots : SrvReceive(i)
    \/ \E i \in Slots : SrvHit(i)
    \/ \E i \in Slots, v \in SrvVerdicts : SrvAnalyze(i, v)
    \/ \E i \in Slots : FetchFail(i)
    \/ \E i \in Slots : QuickFetched(i)
    \/ \E i \in Slots : DeepFetched(i)
    \/ \E i \in Slots : Deliver(i)
    \/ Tick

SpecE2E == InitBG /\ [][NextE2E]_vars

\* The worker and the backend endpoint when the judgment can fail: analyzePost
\* returns its fallback verdict or a verdict with a comment summary
NextFallback ==
    \/ \E k \in Kinds, t \in Texts, n \in 0 .. MaxComments : AllIdle /\ Receive(k, t, n)
    \/ \E i \in Slots : CacheHit(i)
    \/ \E i \in Slots : CacheIncomplete(i)
    \/ \E i \in Slots : CacheEvict(i)
    \/ \E i \in Slots : CacheMiss(i)
    \/ \E i \in Slots : AfterEvict(i)
    \/ \E i \in Slots : RateDeny(i)
    \/ \E i \in Slots : RateAllow(i)
    \/ \E i \in Slots : SrvReceive(i)
    \/ \E i \in Slots : SrvHit(i)
    \/ \E i \in Slots, v \in {VerdictFallback, VerdictRich} : SrvAnalyze(i, v)
    \/ \E i \in Slots : FetchFail(i)
    \/ \E i \in Slots : QuickFetched(i)
    \/ \E i \in Slots : DeepFetched(i)
    \/ \E i \in Slots : Deliver(i)
    \/ Tick

SpecFallback == InitBG /\ [][NextFallback]_vars

(***************************************************************************)
(* The same with a backing store that can fail: chrome.storage.local       *)
(* rejecting a get or a set, Redis rejecting a GET or a SETEX              *)
(***************************************************************************)
\* The message of the error a rejected storage call carries
StoreError == "storage error"

\* A message arrives and storage.get of getCachedAnalysis rejects: the await
\* throws inside the handler's try and its catch returns the error
ReadFail(k, t, n) ==
    /\ Quiet
    /\ msgs < MaxMsgs
    /\ \E i \in Slots : handlers[i].pc = "idle"
    /\ k = "DEEP_ANALYZE" => t \in quickAnswered
    /\ k # "DEEP_ANALYZE" => n = 0
    /\ handlers' = [handlers EXCEPT ![FreeSlot] =
           [Idle EXCEPT !.pc = "done", !.kind = k, !.text = t, !.ncom = n,
                        !.resp = IF k = "QUICK_SCAN"
                                 THEN QuickResp(NoQuick, StoreError, "unset")
                                 ELSE DeepResp(NoAnalysis, StoreError, "unset")]]
    /\ msgs' = msgs + 1
    /\ UNCHANGED <<now, rateRec, cache, redis, redisUp, allowedOn, quickCounted, quickAnswered, deepBy, seqVars, clientVars>>

\* deepAnalyzeAPI has returned the verdict and storage.set of cacheAnalysis
\* rejects: the await throws and the catch of handleDeepAnalysis returns
\* {analysis: null, error}
WriteFail(i) ==
    LET h == handlers[i] IN
    /\ h.pc = "fetched"
    /\ Quiet
    /\ IsDeepKind(h.kind)
    /\ handlers' = [handlers EXCEPT ![i] = [h EXCEPT !.pc = "done", !.data = NoData,
           !.resp = DeepResp(NoAnalysis, StoreError, "unset")]]
    /\ UNCHANGED <<now, rateRec, cache, redis, redisUp, msgs, allowedOn, quickCounted, quickAnswered, deepBy, seqVars, clientVars>>

\* getCachedAnalysis returned null and storage.get of checkRateLimit rejects:
\* checkRateLimit throws and the catch of handleQuickScan returns
\* {quickResult: null, error}
QuotaReadFail(i) ==
    LET h == handlers[i] IN
    /\ h.kind = "QUICK_SCAN"
    /\ (h.pc = "cacheRead" /\ ~h.entry.present) \/ h.pc = "evicted"
    /\ Quiet
    /\ handlers' = [handlers EXCEPT ![i] = [h EXCEPT !.pc = "done", !.entry = NoEntry,
           !.resp = QuickResp(NoQuick, StoreError, "unset")]]
    /\ UNCHANGED <<now, rateRec, cache, redis, redisUp, msgs, allowedOn, quickCounted, quickAnswered, deepBy, seqVars, clientVars>>

\* Backend getCachedAnalysis: redis.get rejects, the catch returns null
SrvReadFail(i) ==
    LET h == handlers[i] IN
    /\ h.pc = "fetch"
    /\ Quiet
    /\ redisUp
    /\ handlers' = [handlers EXCEPT ![i] = [h EXCEPT !.pc = "srvCache", !.sentry = NoEntry]]
    /\ UNCHANGED <<now, rateRec, cache, redis, redisUp, msgs, allowedOn, quickCounted, quickAnswered, deepBy, seqVars, clientVars>>

\* Backend cacheAnalysis: redis.setex rejects, the catch logs it and the
\* response is written with the verdict v of analyzePost
SrvWriteFail(i, v) ==
    LET h == handlers[i] IN
    /\ h.pc = "srvCache"
    /\ Quiet
    /\ redisUp
    /\ ~h.sentry.present
    /\ handlers' = [handlers EXCEPT ![i] = [h EXCEPT !.pc = "fetched",
           !.data = [present |-> TRUE, analysis |-> v, quick |-> NoQuick, cached |-> FALSE]]]
    /\ UNCHANGED <<now, rateRec, cache, redis, redisUp, msgs, allowedOn, quickCounted, quickAnswered, deepBy, seqVars, clientVars>>

NextStore ==
    \/ NextE2E
    \/ \E k \in Kinds, t \in Texts, n \in 0 .. MaxComments : AllIdle /\ ReadFail(k, t, n)
    \/ \E i \in Slots : WriteFail(i)
    \/ \E i \in Slots : QuotaReadFail(i)
    \/ \E i \in Slots : SrvReadFail(i)
    \/ \E i \in Slots, v \in SrvVerdicts : SrvWriteFail(i, v)

SpecStore == InitBG /\ [][NextStore]_vars

(***************************************************************************)
(* checkRateLimit, one call after another                                  *)
(***************************************************************************)
\* One whole call: read, decide, write
SeqCheck ==
    LET today == Today(now)
        ok    == RateAllowed(rateRec, today)
    IN  /\ seqCalls < DAILY_LIMIT + MaxExtra
        /\ rateRec' = IF ok THEN RateAfter(rateRec, today) ELSE rateRec
        /\ seqCalls' = seqCalls + 1
        /\ seqAllowed' = IF ok THEN seqAllowed + 1 ELSE seqAllowed
        /\ last' = [present |-> TRUE, allowed |-> ok]
        /\ remaining' = 0 - 1
        /\ UNCHANGED <<now, cache, redis, redisUp, handlers, msgs, allowedOn,
                       quickCounted, quickAnswered, deepBy, ap, clientVars>>

\* The calendar date changes
SeqNewDay ==
    /\ now < StartMs + MaxDays * DayMs
    /\ now' = now + DayMs
    /\ seqCalls' = 0
    /\ seqAllowed' = 0
    /\ last' = [present |-> FALSE]
    /\ remaining' = 0 - 1
    /\ UNCHANGED <<rateRec, cache, redis, redisUp, handlers, msgs, allowedOn,
                   quickCounted, quickAnswered, deepBy, ap, clientVars>>

\* The listener answers GET_REMAINING with getRemainingRequests()
GetRemaining ==
    /\ remaining' = getRemainingRequests(rateRec, Today(now))
    /\ UNCHANGED <<bgVars, seqCalls, seqAllowed, last, ap, clientVars>>

InitQuota ==
    /\ now = StartMs
    /\ rateRec \in {NoRec, [present |-> TRUE, date |-> Today(StartMs) - 1, count |-> DAILY_LIMIT]}
    /\ cache = [k \in {hashText(t) : t \in Texts} |-> NoEntry]
    /\ redis = [k \in {generateCacheKey(t) : t \in Texts} |-> NoEntry]
    /\ redisUp = TRUE
    /\ handlers = [i \in Slots |-> Idle]
    /\ msgs = 0
    /\ allowedOn = [d \in Days |-> 0]
    /\ quickCounted = {}
    /\ quickAnswered = {}
    /\ deepBy = [k \in {hashText(t) : t \in Texts} |-> -1]
    /\ InitSeq
    /\ ap = ApIdle
    /\ InitPage

NextQuota == SeqCheck \/ SeqNewDay \/ GetRemaining

SpecQuota == InitQuota /\ [][NextQuota]_vars

(***************************************************************************)
(* Content script                                                          *)
(***************************************************************************)
Stale == "stale"

\* Variant of Arm without clearTimeout
Arm_NoClear(ts, t) == ts \cup {t + DebounceMs}

\* observePosts: clearTimeout(debounceTimer), whose handle is the timeout set
\* when nodes were last added, then setTimeout(processVisiblePosts, 300)
Arm(ts, t) == (ts \ {lastAdd + DebounceMs}) \cup {t + DebounceMs}

\* The pending timeouts once the earliest has run
Fired(ts) == ts \ {d \in ts : \A e \in ts : d <= e}

\* The observer's callback after a handler has changed the document: the
\* timer is set anew when nodes were added
Rearm(added) ==
    /\ timers' = IF added THEN Arm(timers, now) ELSE timers
    /\ lastAdd' = IF added THEN now ELSE lastAdd
    /\ passAt' = passAt

QuickReplies == {"none", "error", "green", "amber"}

\* What the DEEP_ANALYZE callback receives: no analysis, or its overall
DeepReplies == {"error", "red"}

\* Variant of CanTrigger that does not look at deepPending
CanTrigger_IgnoresPending(m) == m.present /\ ~m.deepResult

\* triggerDeepAnalysis: the guard on entry
CanTrigger(m) == m.present /\ ~m.deepResult /\ ~m.deepPending

\* Variant of Wired: the listeners are on the error badge as well
Wired_AnyBadge(b) == b \in {"signal", "error"}

\* setBadgeQuick: setupBadgeInteraction has put the listeners on the badge;
\* it is not reached for the error badge
Wired(b) == b = "signal"

\* The mouseenter listener: is the hover timer started?
HoverWanted(m) == m.present /\ ~m.deepResult /\ ~m.deepPending

\* Variant of FreshComments that always takes the re-extracted comments
FreshComments_Overwrites(p, m, b) ==
    IF b[p] # "none" THEN domComments[p] ELSE m.comments

\* triggerDeepAnalysis: the comments sent, re-extracted through the badge
FreshComments(p, m, b) ==
    IF b[p] # "none" /\ domComments[p] > m.comments THEN domComments[p]
    ELSE m.comments

\* triggerDeepAnalysis(p) on the map mm: the map after the call and whether
\* a DEEP_ANALYZE message was sent
Trigger(p, mm, b) ==
    LET m == mm[p] IN
    IF CanTrigger(m)
    THEN [meta |-> [mm EXCEPT ![p] = [m EXCEPT !.comments = FreshComments(p, m, b),
                                                !.deepPending = TRUE]],
          sent |-> TRUE]
    ELSE [meta |-> mm, sent |-> FALSE]

\* Variant of ShownSet that leaves the previously active panel shown
ShownSet_KeepsActive(p) == visible \cup {p}

\* showPanel: the visible panels after showing the panel of p
ShownSet(p) ==
    (visible \ (IF activePanel \in Ids /\ activePanel # p THEN {activePanel} ELSE {}))
        \cup {p}

\* The 300 ms hover timer fires and calls triggerDeepAnalysis
HoverFire(p) ==
    LET t == Trigger(p, postMetaMap, badge) IN
    /\ hoverTimer[p]
    /\ t.sent => deepOut[p] + deepStale[p] < MaxFlight
    /\ hoverTimer' = [hoverTimer EXCEPT ![p] = FALSE]
    /\ postMetaMap' = t.meta
    /\ deepOut' = [deepOut EXCEPT ![p] = IF t.sent THEN @ + 1 ELSE @]
    /\ lastTrigger' = [post |-> p, sent |-> t.sent]
    /\ UNCHANGED <<textLen, domComments, badge, panel, visible, mouse,
                   processedPosts, pendingPosts, activePanel, debounceTimer,
                   quickOut, quickSent, deepStale, lastPass, rating, timers,
                   lastAdd, passAt, bgVars, seqVars>>

\* mouseenter on a badge that setupBadgeInteraction has wired
MouseEnter(p) ==
    /\ mouse = None
    /\ Wired(badge[p])
    /\ mouse' = p
    /\ hoverTimer' = [hoverTimer EXCEPT ![p] = @ \/ HoverWanted(postMetaMap[p])]
    /\ UNCHANGED <<textLen, domComments, badge, panel, visible, processedPosts,
                   pendingPosts, postMetaMap, activePanel, debounceTimer, quickOut,
                   quickSent, deepOut, deepStale, lastTrigger, lastPass, rating, timers,
                   lastAdd, passAt, bgVars, seqVars>>

\* mouseleave clears the timer
MouseLeave(p) ==
    /\ mouse = p
    /\ mouse' = None
    /\ hoverTimer' = [hoverTimer EXCEPT ![p] = FALSE]
    /\ UNCHANGED <<textLen, domComments, badge, panel, visible, processedPosts,
                   pendingPosts, postMetaMap, activePanel, debounceTimer, quickOut,
                   quickSent, deepOut, deepStale, lastTrigger, lastPass, rating, timers,
                   lastAdd, passAt, bgVars, seqVars>>

\* The badge's click listener
BadgeClick(p) ==
    LET m == postMetaMap[p]
        t == Trigger(p, postMetaMap, badge)
    IN
    /\ Wired(badge[p])
    /\ m.present
    /\ IF panel[p] # "none" /\ p \in visible
       THEN /\ visible' = visible \ {p}
            /\ activePanel' = None
            /\ UNCHANGED <<panel, postMetaMap, deepOut, lastTrigger, debounceTimer>>
       ELSE IF m.deepResult
       THEN /\ panel' = [panel EXCEPT ![p] = IF @ = "none" THEN "full" ELSE @]
            /\ visible' = ShownSet(p)
            /\ activePanel' = p
            /\ debounceTimer' = (debounceTimer \/ panel[p] = "none")
            /\ UNCHANGED <<postMetaMap, deepOut, lastTrigger>>
       ELSE /\ ~m.deepPending /\ t.sent => deepOut[p] + deepStale[p] < MaxFlight
            /\ postMetaMap' = IF ~m.deepPending THEN t.meta ELSE postMetaMap
            /\ deepOut' = [deepOut EXCEPT ![p] =
                              IF ~m.deepPending /\ t.sent THEN @ + 1 ELSE @]
            /\ lastTrigger' = IF ~m.deepPending THEN [post |-> p, sent |-> t.sent]
                              ELSE lastTrigger
            /\ panel' = [panel EXCEPT ![p] = IF @ = "none" THEN "loading" ELSE @]
            /\ visible' = ShownSet(p)
            /\ activePanel' = p
            /\ debounceTimer' = (debounceTimer \/ panel[p] = "none")
    /\ Rearm(panel'[p] # panel[p])
    /\ UNCHANGED <<textLen, domComments, badge, mouse, hoverTimer, processedPosts,
                   pendingPosts, quickOut, quickSent, deepStale, lastPass,
                   rating, bgVars, seqVars>>

\* The close button of a panel (createPanel and createLoadingPanel wire the
\* same listener); the button can be clicked while its panel is shown
PanelClose(p) ==
    /\ panel[p] # "none"
    /\ p \in visible
    /\ visible' = visible \ {p}
    /\ activePanel' = None
    /\ UNCHANGED <<textLen, domComments, badge, panel, mouse, hoverTimer,
                   processedPosts, pendingPosts, postMetaMap, debounceTimer, quickOut,
                   quickSent, deepOut, deepStale, lastTrigger, lastPass, rating, timers,
                   lastAdd, passAt, bgVars, seqVars>>

\* The document's click listener, for a click outside panel and badges
DocumentClick ==
    /\ activePanel # None
    /\ visible' = visible \ {activePanel}
    /\ activePanel' = None
    /\ UNCHANGED <<textLen, domComments, badge, panel, mouse, hoverTimer,
                   processedPosts, pendingPosts, postMetaMap, debounceTimer, quickOut,
                   quickSent, deepOut, deepStale, lastTrigger, lastPass, rating, timers,
                   lastAdd, passAt, bgVars, seqVars>>

\* Variant of PendingAfter that clears the flag only with an analysis
PendingAfter_OnlyOnSuccess(ok) == ~ok

\* The DEEP_ANALYZE callback's first statement: meta.deepPending = false
PendingAfter(ok) == FALSE

\* The callback of the DEEP_ANALYZE message; held says whether its PostMeta
\* object is still the one in postMetaMap, d is "error" for a response
\* without payload.analysis, else payload.analysis.overall
DeepCallback(p, held, d) ==
    LET m == postMetaMap[p]
        ok == d # "error"
        wasVisible == panel[p] # "none" /\ p \in visible
    IN
    /\ IF held = "mapped" THEN deepOut[p] > 0 ELSE deepStale[p] > 0
    /\ deepOut' = [deepOut EXCEPT ![p] = IF held = "mapped" THEN @ - 1 ELSE @]
    /\ deepStale' = [deepStale EXCEPT ![p] = IF held = "mapped" THEN @ ELSE @ - 1]
    /\ postMetaMap' =
          IF held = "mapped"
          THEN [postMetaMap EXCEPT ![p] = [m EXCEPT !.deepPending = PendingAfter(ok),
                                                     !.deepResult = m.deepResult \/ ok]]
          ELSE postMetaMap
    /\ IF ok
       THEN /\ panel' = [panel EXCEPT ![p] = "full"]
            /\ debounceTimer' = TRUE
            /\ IF wasVisible /\ badge[p] # "none"
               THEN /\ visible' = ShownSet(p)
                    /\ activePanel' = p
               ELSE /\ visible' = visible \ {p}
                    /\ activePanel' = IF activePanel = p /\ panel[p] # "none"
                                      THEN Stale ELSE activePanel
       ELSE UNCHANGED <<panel, debounceTimer, visible, activePanel>>
    /\ rating' = IF ok /\ badge[p] # "none" THEN [rating EXCEPT ![p] = d] ELSE rating
    /\ Rearm(ok)
    /\ UNCHANGED <<textLen, domComments, badge, mouse, hoverTimer, processedPosts,
                   pendingPosts, quickOut, quickSent, lastTrigger, lastPass,
                   bgVars, seqVars>>

\* Variant of Seen that does not look at pendingPosts
Seen_ProcessedOnly(p, pend, proc) == p \in proc

\* processPost: the post is already handled or being handled
Seen(p, pend, proc) == p \in proc \/ p \in pend

\* injectBadge: article.querySelector('.think-social-badge') finds a badge
HasBadgeInside(p, b) ==
    b[p] # "none" \/ \E q \in Nested(p) : textLen[q] > 0 /\ b[q] # "none"

\* processPost on the article of p, s being the state the pass has built
ProcessPost(s, p) ==
    IF textLen[p] = 0 THEN s
    ELSE IF Seen(p, s.pending, processedPosts) THEN [s EXCEPT !.last = @ \cup {p}]
    ELSE IF textLen[p] < MinTextLen THEN s
    ELSE LET s1 == [s EXCEPT !.meta[p] = NewMeta(domComments[p]),
                             !.dStale[p] = @ + s.dOut[p],
                             !.dOut[p] = 0]
         IN  IF HasBadgeInside(p, s.badge)
             THEN [s1 EXCEPT !.pending = @ \ {p}]
             ELSE [s1 EXCEPT !.pending = @ \cup {p},
                             !.badge[p] = "loading",
                             !.out[p] = @ + 1,
                             !.sent[p] = @ + 1,
                             !.armed = TRUE]

RECURSIVE PassFrom(_, _)
\* processVisiblePosts: processPost on every article, in document order
PassFrom(s, k) ==
    IF k > Len(Order) THEN s ELSE PassFrom(ProcessPost(s, Order[k]), k + 1)

\* The debounce timer fires: processVisiblePosts
processVisiblePosts ==
    LET s0 == [meta |-> postMetaMap, pending |-> pendingPosts, badge |-> badge,
               out |-> quickOut, sent |-> quickSent, dOut |-> deepOut,
               dStale |-> deepStale, armed |-> FALSE, last |-> {}]
        s  == PassFrom(s0, 1)
    IN
    /\ debounceTimer
    /\ \A p \in Ids : s.sent[p] <= MaxSends
    /\ debounceTimer' = s.armed
    /\ postMetaMap' = s.meta
    /\ pendingPosts' = s.pending
    /\ badge' = s.badge
    /\ quickOut' = s.out
    /\ quickSent' = s.sent
    /\ deepOut' = s.dOut
    /\ deepStale' = s.dStale
    /\ lastPass' = s.last
    /\ timers' = IF s.armed THEN Arm(Fired(timers), now) ELSE Fired(timers)
    /\ lastAdd' = IF s.armed THEN now ELSE lastAdd
    /\ passAt' = now
    /\ UNCHANGED <<textLen, domComments, panel, visible, mouse, hoverTimer,
                   processedPosts, activePanel, lastTrigger, rating, bgVars, seqVars>>

\* Variant of AutoEscalates that never pre-fetches
AutoEscalates_Never(r) == FALSE

\* The quick callback's test before its own call of triggerDeepAnalysis
AutoEscalates(r) == r = "amber" \/ r = "red"

\* The callback of the QUICK_SCAN message; r is "none" for no response,
\* "error" for payload.error, else payload.quickResult.overall
QuickCallback(p, r) ==
    LET m1 == IF r \notin {"none", "error"} /\ postMetaMap[p].present
              THEN [postMetaMap EXCEPT ![p].quickResult = r] ELSE postMetaMap
        auto == AutoEscalates(r)
        t == IF auto THEN Trigger(p, m1, badge) ELSE [meta |-> m1, sent |-> FALSE]
    IN
    /\ quickOut[p] > 0
    /\ t.sent => deepOut[p] + deepStale[p] < MaxFlight
    /\ quickOut' = [quickOut EXCEPT ![p] = @ - 1]
    /\ pendingPosts' = pendingPosts \ {p}
    /\ processedPosts' = processedPosts \cup {p}
    /\ postMetaMap' = t.meta
    /\ deepOut' = [deepOut EXCEPT ![p] = IF t.sent THEN @ + 1 ELSE @]
    /\ lastTrigger' = IF auto THEN [post |-> p, sent |-> t.sent] ELSE lastTrigger
    /\ badge' = IF r = "none" \/ badge[p] = "none" THEN badge
                ELSE [badge EXCEPT ![p] = IF r = "error" THEN "error" ELSE "signal"]
    /\ debounceTimer' = (debounceTimer \/ (r # "none" /\ badge[p] # "none"))
    /\ rating' = IF r \in {"none", "error"} \/ badge[p] = "none" THEN rating
                 ELSE [rating EXCEPT ![p] = r]
    /\ Rearm(r # "none" /\ badge[p] # "none")
    /\ UNCHANGED <<textLen, domComments, panel, visible, mouse, hoverTimer,
                   activePanel, quickSent, deepStale, lastPass, bgVars, seqVars>>

\* The page puts (or puts again) the article of p into the document, with
\* a text of length len; the observer sees added nodes
Mutation(p, len) ==
    /\ textLen' = [textLen EXCEPT ![p] = len]
    /\ badge' = [badge EXCEPT ![p] = "none"]
    /\ mouse' = IF mouse = p THEN None ELSE mouse
    /\ debounceTimer' = TRUE
    /\ rating' = [rating EXCEPT ![p] = None]
    /\ Rearm(TRUE)
    /\ UNCHANGED <<domComments, panel, visible, hoverTimer, processedPosts,
                   pendingPosts, postMetaMap, activePanel, quickOut, quickSent,
                   deepOut, deepStale, lastTrigger, lastPass, bgVars, seqVars>>

\* The page loads one more comment under the post; the observer sees it
CommentsLoad(p) ==
    /\ textLen[p] > 0
    /\ domComments[p] < MaxComments
    /\ domComments' = [domComments EXCEPT ![p] = @ + 1]
    /\ debounceTimer' = TRUE
    /\ Rearm(TRUE)
    /\ UNCHANGED <<textLen, badge, panel, visible, mouse, hoverTimer, processedPosts,
                   pendingPosts, postMetaMap, activePanel, quickOut, quickSent,
                   deepOut, deepStale, lastTrigger, lastPass, rating, bgVars, seqVars>>

\* The page takes the loaded comments of the post out of the document again
\* (a thread is collapsed); the observer sees no added node and arms nothing
CommentsCollapse(p) ==
    /\ domComments[p] > 0
    /\ domComments' = [domComments EXCEPT ![p] = 0]
    /\ UNCHANGED <<textLen, badge, panel, visible, mouse, hoverTimer, processedPosts,
                   pendingPosts, postMetaMap, activePanel, debounceTimer, quickOut,
                   quickSent, deepOut, deepStale, lastTrigger, lastPass, rating, timers,
                   lastAdd, passAt,
                   bgVars, seqVars>>

InitClient ==
    /\ now = StartMs
    /\ rateRec = NoRec
    /\ cache = [k \in {hashText(t) : t \in Texts} |-> NoEntry]
    /\ redis = [k \in {generateCacheKey(t) : t \in Texts} |-> NoEntry]
    /\ redisUp = TRUE
    /\ handlers = [i \in Slots |-> Idle]
    /\ msgs = 0
    /\ allowedOn = [d \in Days |-> 0]
    /\ quickCounted = {}
    /\ quickAnswered = {}
    /\ deepBy = [k \in {hashText(t) : t \in Texts} |-> -1]
    /\ InitSeq
    /\ ap = ApIdle
    /\ InitPage

NextClient ==
    \/ \E p \in Ids : \E len \in {MinTextLen - 1, MinTextLen} : Mutation(p, len)
    \/ \E p \in Ids : CommentsLoad(p)
    \/ processVisiblePosts
    \/ \E p \in Ids : \E r \in QuickReplies : QuickCallback(p, r)
    \/ \E p \in Pointed : MouseEnter(p)
    \/ \E p \in Pointed : MouseLeave(p)
    \/ \E p \in Pointed : HoverFire(p)
    \/ \E p \in Pointed : BadgeClick(p)
    \/ DocumentClick
    \/ \E p \in Ids : \E held \in {"mapped", "replaced"} : \E d \in DeepReplies :
          DeepCallback(p, held, d)

SpecClient == InitClient /\ [][NextClient]_vars

\* The comments under the posts come and go while deep requests are sent
NextComments ==
    \/ \E p \in Ids : Mutation(p, MinTextLen)
    \/ \E p \in Ids : CommentsLoad(p)
    \/ \E p \in Ids : CommentsCollapse(p)
    \/ processVisiblePosts
    \/ \E p \in Ids : \E r \in {"green", "amber"} : QuickCallback(p, r)
    \/ \E p \in Pointed : MouseEnter(p)
    \/ \E p \in Pointed : MouseLeave(p)
    \/ \E p \in Pointed : HoverFire(p)
    \/ \E p \in Pointed : BadgeClick(p)
    \/ \E p \in Ids : \E d \in DeepReplies : DeepCallback(p, "mapped", d)

SpecComments == InitClient /\ [][NextComments]_vars

\* Time passes on the page, by one, two or three thirds of the debounce
\* delay; a timeout runs when it is due, so time does not pass a due time
Elapse(n) ==
    /\ now + n * (DebounceMs \div 3) <= StartMs + MaxElapse * (DebounceMs \div 3)
    /\ \A d \in timers : now + n * (DebounceMs \div 3) <= d
    /\ now' = now + n * (DebounceMs \div 3)
    /\ UNCHANGED <<rateRec, cache, redis, redisUp, handlers, msgs, allowedOn,
                   quickCounted, quickAnswered, deepBy, seqVars, clientVars>>

\* A timeout of observePosts is due and runs processVisiblePosts
DebounceFire ==
    /\ now \in timers
    /\ processVisiblePosts

\* The page on the clock: articles and comments arrive in bursts
NextDebounce ==
    \/ \E p \in Ids : \E len \in {MinTextLen - 1, MinTextLen} : Mutation(p, len)
    \/ \E p \in Ids : CommentsLoad(p)
    \/ \E n \in 1 .. 3 : Elapse(n)
    \/ DebounceFire
    \/ \E p \in Ids : \E r \in {"none", "green"} : QuickCallback(p, r)

SpecDebounce == InitClient /\ [][NextDebounce]_vars

\* The badges and panels of all posts, every quick verdict: the user clicks
\* the badges and the close buttons of every post, hovers, and clicks
\* outside; the page re-renders articles
NextPanels ==
    \/ \E p \in Ids : Mutation(p, MinTextLen)
    \/ processVisiblePosts
    \/ \E p \in Ids : \E r \in Ratings : QuickCallback(p, r)
    \/ \E p \in Pointed : MouseEnter(p)
    \/ \E p \in Pointed : MouseLeave(p)
    \/ \E p \in Pointed : HoverFire(p)
    \/ \E p \in Ids : BadgeClick(p)
    \/ \E p \in Ids : PanelClose(p)
    \/ DocumentClick
    \/ \E p \in Ids : \E d \in DeepReplies : DeepCallback(p, "mapped", d)

SpecPanels == InitClient /\ [][NextPanels]_vars

(***************************************************************************)
(* Backend analysis (analyze.ts): quickScan and analyzePost                *)
(***************************************************************************)
Lens == {MinTextLen, SearchMinLen, SearchMinLen + 1}

\* quickScan, catch: the result when the call or the parsing failed
QuickFallback ==
    [present |-> TRUE, overall |-> "amber", summary |-> "unavailable",
     confidence |-> FallbackConfidence]

\* quickScan: the QuickResult built from the response r of the completion
QuickResult(r) ==
    IF r.kind # "json" THEN QuickFallback
    ELSE [present |-> TRUE,
          overall |-> IF r.overall \in Ratings THEN r.overall ELSE "amber",
          summary |-> IF r.summary THEN "given" ELSE "default",
          confidence |-> IF r.conf.num THEN Min(100, Max(0, r.conf.val))
                         ELSE QuickDefaultConfidence]

\* Variant of validateAnalysisResult: only the overall rating is looked at
validateAnalysisResult_OverallOnly(r) == r.overall \in Ratings

\* validateAnalysisResult: overall, the five dimensions (object, rating,
\* label) and summary
validateAnalysisResult(r) ==
    /\ r.overall \in Ratings
    /\ \A d \in Dimensions : r.dims[d] \in Ratings
    /\ r.summary

\* validateAnalysisResult: obj.confidence after the call
ValidatedConfidence(c) ==
    IF ~c.num \/ c.val < 0 \/ c.val > 100 THEN DefaultConfidence ELSE c.val

\* A counter source the judgment response supplies by itself
OwnSource == [from |-> 0 - 1, stance |-> None]

\* validateAnalysisResult: obj.counterSources after the call
ValidatedSources(r) == IF r.sources = "given" THEN <<OwnSource>> ELSE <<>>

\* searchResultsToCounterSources: every result with a url and a title, in
\* order, without a stance; from is the index of the search result
searchResultsToCounterSources(results) ==
    LET idx == [k \in 1 .. Len(results) |-> k]
        kept == SelectSeq(idx, LAMBDA k : results[k].titled)
    IN [j \in 1 .. Len(kept) |-> [from |-> kept[j] - 1, stance |-> None]]

\* analyzePost: the marks with an index inside the result list, each mapped
\* to the result at that index with stance || 'neutral'
RelevantSources(marks, results) ==
    LET kept == SelectSeq(marks, LAMBDA a : a.index >= 0 /\ a.index < Len(results))
    IN [j \in 1 .. Len(kept) |->
           [from |-> kept[j].index,
            stance |-> IF kept[j].stance = "" THEN "neutral" ELSE kept[j].stance]]

\* analyzePost: analysis.counterSources after the relevance merge
MergedSources(r, results) ==
    IF Len(results) > 0
    THEN LET relevantArticles == IF r.marksGiven THEN r.marks ELSE <<>>
         IN IF Len(relevantArticles) > 0
            THEN RelevantSources(relevantArticles, results)
            ELSE searchResultsToCounterSources(results)
    ELSE ValidatedSources(r)

HasVideo(a) == a.visuals \in {"thumb", "bare"}

\* analyzePost, catch: the verdict returned when the judgment failed
DeepFallback(a) ==
    [present |-> TRUE, overall |-> "amber",
     dims |-> [d \in Dimensions |-> [rating |-> "amber", label |-> TRUE]],
     summary |-> "fallback", confidence |-> FallbackConfidence,
     counterSources |-> IF Len(a.results) > 0
                        THEN searchResultsToCounterSources(a.results) ELSE <<>>,
     comment |-> "absent", hasVideo |-> HasVideo(a), video |-> a.described]

\* analyzePost, try: the parsed response after validation and the merges
DeepVerdict(a, r) ==
    [present |-> TRUE, overall |-> r.overall,
     dims |-> [d \in Dimensions |-> [rating |-> r.dims[d], label |-> r.dims[d] # "nolabel"]],
     summary |-> IF r.summary THEN "given" ELSE "absent",
     confidence |-> ValidatedConfidence(r.conf),
     counterSources |-> MergedSources(r, a.results),
     comment |-> r.comment, hasVideo |-> HasVideo(a), video |-> a.described]

\* analyzePost from the completion's response on
DeepResult(a, r) ==
    IF r.kind = "json" /\ validateAnalysisResult(r) THEN DeepVerdict(a, r)
    ELSE DeepFallback(a)

\* Variant of VisionCalled that asks for hasVisuals only
VisionCalled_AnyVisuals(a) == a.visuals # "none" /\ a.visionUp

\* analyzePost: is the vision adapter called at all?
VisionCalled(a) == a.visuals \in {"thumb", "images"} /\ a.visionUp

\* Variant of VisionDescription: an error of the adapter leaves the closure
VisionDescription_Escapes(a, o) ==
    [threw |-> VisionCalled(a) /\ o = "throws", text |-> VisionCalled(a) /\ o = "text"]

\* analyzePost, first member of Promise.all: '' without visuals or adapter,
\* else what analyzeImage / analyzeMultipleImages return, which is '' after
\* an error; an error is caught here as well
VisionDescription(a, o) ==
    [threw |-> FALSE, text |-> VisionCalled(a) /\ o = "text"]

\* Variant of SearchCalled that takes a text of the minimum length as well
SearchCalled_Inclusive(a) == a.searchUp /\ a.len >= SearchMinLen

\* analyzePost: is the search adapter called at all?
SearchCalled(a) == a.searchUp /\ a.len > SearchMinLen

\* analyzePost, second member of Promise.all: [] when search is not
\* configured or the text is short, else what searchTopic returns, which is
\* [] after an error; an error is caught here as well
SearchResults(a, o) ==
    [threw |-> FALSE,
     list |-> IF SearchCalled(a) /\ ~o.threw THEN o.list ELSE <<>>]

SearchOutcomes ==
    {[threw |-> TRUE, list |-> <<>>]} \cup {[threw |-> FALSE, list |-> l] : l \in ResultLists}

\* How the vision adapter ended for this call
VisionOutcome(a, o) ==
    IF a.visuals \in {"none", "bare"} THEN "skipped"
    ELSE IF ~a.visionUp THEN "unavailable" ELSE o

\* How the search adapter ended for this call
SearchOutcome(a, o) ==
    IF ~a.searchUp THEN "unavailable"
    ELSE IF a.len <= SearchMinLen THEN "skipped"
    ELSE IF o.threw THEN "throws" ELSE "results"

\* POST /api/analyze: the body is read for text and author only and the
\* analysis is analyzePost(text, author || 'Unknown')
SrvDispatch ==
    /\ ap.pc = "request"
    /\ ap' = [ap EXCEPT !.pc = "fanout", !.fn = "analyzePost",
                        !.visuals = "none", !.ncom = 0]
    /\ UNCHANGED <<bgVars, seqCalls, seqAllowed, last, remaining, clientVars>>

\* analyzePost, step 1: both adapters have settled
Fanout(vo, so) ==
    LET v == VisionDescription(ap, vo)
        s == SearchResults(ap, so)
    IN /\ ap.pc = "fanout"
       /\ ~VisionCalled(ap) => vo = "empty"
       /\ ~SearchCalled(ap) => so = [threw |-> FALSE, list |-> <<>>]
       /\ ap' = [ap EXCEPT !.pc = IF v.threw \/ s.threw THEN "threw" ELSE "judge",
                           !.mode = IF v.threw \/ s.threw THEN None ELSE "deep",
                           !.vfly = "settled", !.sfly = "settled",
                           !.vout = VisionOutcome(ap, vo), !.sout = SearchOutcome(ap, so),
                           !.described = v.text, !.results = s.list,
                           !.calls = [ap.calls EXCEPT
                                         !.vision = IF VisionCalled(ap) THEN 1 ELSE 0,
                                         !.search = IF SearchCalled(ap) THEN 1 ELSE 0]]
       /\ UNCHANGED <<bgVars, seqCalls, seqAllowed, last, remaining, clientVars>>

\* analyzePost, step 1 taken apart.  Promise.all receives the two closures
\* already called: each has run to its first await (the adapter's request is
\* out) or has returned at once ('' / []) without calling its adapter
StartAdapters ==
    /\ ap.pc = "fanout"
    /\ ap' = [ap EXCEPT !.pc = "adapters",
                        !.vfly = IF VisionCalled(ap) THEN "flying" ELSE "settled",
                        !.sfly = IF SearchCalled(ap) THEN "flying" ELSE "settled",
                        !.vout = IF VisionCalled(ap) THEN None
                                 ELSE VisionOutcome(ap, "empty"),
                        !.sout = IF SearchCalled(ap) THEN None
                                 ELSE SearchOutcome(ap, [threw |-> FALSE, list |-> <<>>]),
                        !.calls = [ap.calls EXCEPT
                                      !.vision = IF VisionCalled(ap) THEN 1 ELSE 0,
                                      !.search = IF SearchCalled(ap) THEN 1 ELSE 0]]
    /\ UNCHANGED <<bgVars, seqCalls, seqAllowed, last, remaining, clientVars>>

\* The vision adapter settles with outcome vo; its closure returns
VisionSettle(vo) ==
    /\ ap.pc = "adapters"
    /\ ap.vfly = "flying"
    /\ ap' = [ap EXCEPT !.vfly = "settled", !.vout = VisionOutcome(ap, vo),
                        !.described = VisionDescription(ap, vo).text]
    /\ UNCHANGED <<bgVars, seqCalls, seqAllowed, last, remaining, clientVars>>

\* The search adapter settles with outcome so; its closure returns
SearchSettle(so) ==
    /\ ap.pc = "adapters"
    /\ ap.sfly = "flying"
    /\ ap' = [ap EXCEPT !.sfly = "settled", !.sout = SearchOutcome(ap, so),
                        !.results = SearchResults(ap, so).list]
    /\ UNCHANGED <<bgVars, seqCalls, seqAllowed, last, remaining, clientVars>>

\* Variant of Gather: analyzePost goes on once the search has settled
Gather_SearchOnly ==
    /\ ap.pc = "adapters"
    /\ ap.sfly = "settled"
    /\ ap' = [ap EXCEPT !.pc = "judge", !.mode = "deep"]
    /\ UNCHANGED <<bgVars, seqCalls, seqAllowed, last, remaining, clientVars>>

\* await Promise.all([...]) resumes: both closures have returned; the
\* contexts are built and the completion is requested
Gather ==
    /\ ap.pc = "adapters"
    /\ ap.vfly = "settled" /\ ap.sfly = "settled"
    /\ ap' = [ap EXCEPT !.pc = "judge", !.mode = "deep"]
    /\ UNCHANGED <<bgVars, seqCalls, seqAllowed, last, remaining, clientVars>>

\* The completion settles with r and quickScan / analyzePost returns
Judge(r) ==
    /\ ap.pc = "judge"
    /\ ap.fn = "quickScan" => r \in QuickJudgeReplies
    /\ ap' = [ap EXCEPT !.pc = "done", !.reply = r,
                        !.calls = [ap.calls EXCEPT !.judge = ap.calls.judge + 1],
                        !.out = IF ap.fn = "quickScan" THEN QuickResult(r)
                                ELSE DeepResult(ap, r)]
    /\ UNCHANGED <<bgVars, seqCalls, seqAllowed, last, remaining, clientVars>>

\* The calls: quickScan(text), analyzePost with its seven arguments,
\* and a request to POST /api/analyze with depth quick or deep
ApInputs ==
    {[ApIdle EXCEPT !.via = "direct", !.depth = "quick", !.fn = "quickScan",
                    !.pc = "judge", !.mode = "quick", !.len = n] : n \in Lens}
    \cup {[ApIdle EXCEPT !.via = "direct", !.depth = "deep", !.fn = "analyzePost",
                         !.pc = "fanout", !.len = n, !.visuals = vis, !.ncom = c,
                         !.visionUp = vu, !.searchUp = su] :
             n \in Lens, vis \in {"none", "thumb", "images", "bare"},
             c \in 0 .. MaxComments, vu \in BOOLEAN, su \in BOOLEAN}
    \cup {[ApIdle EXCEPT !.via = "endpoint", !.depth = dp, !.pc = "request", !.len = n,
                         !.reqComments = c, !.visionUp = vu, !.searchUp = su] :
             dp \in {"quick", "deep"}, n \in Lens, c \in 0 .. MaxComments,
             vu \in BOOLEAN, su \in BOOLEAN}

InitAnalyze ==
    /\ now = StartMs
    /\ rateRec = NoRec
    /\ cache = [k \in {hashText(t) : t \in Texts} |-> NoEntry]
    /\ redis = [k \in {generateCacheKey(t) : t \in Texts} |-> NoEntry]
    /\ redisUp = TRUE
    /\ handlers = [i \in Slots |-> Idle]
    /\ msgs = 0
    /\ allowedOn = [d \in Days |-> 0]
    /\ quickCounted = {TextA}
    /\ quickAnswered = {TextA}
    /\ deepBy = [k \in {hashText(t) : t \in Texts} |-> 0 - 1]
    /\ InitSeq
    /\ InitPage
    /\ ap \in ApInputs

NextAnalyze ==
    \/ SrvDispatch
    \/ \E vo \in {"text", "empty", "throws"}, so \in SearchOutcomes : Fanout(vo, so)
    \/ \E r \in JudgeReplies : Judge(r)

SpecAnalyze == InitAnalyze /\ [][NextAnalyze]_vars

\* analyzePost with the fan-out taken apart into its awaits
NextFanout ==
    \/ SrvDispatch
    \/ StartAdapters
    \/ \E vo \in {"text", "empty", "throws"} : VisionSettle(vo)
    \/ \E so \in SearchOutcomes : SearchSettle(so)
    \/ Gather
    \/ \E r \in FailedReplies \cup {BaseReply} : Judge(r)

SpecFanout == InitAnalyze /\ [][NextFanout]_vars

(***************************************************************************)
(* Properties                                                              *)
(***************************************************************************)
\* The handler in slot i takes this step
Steps(i) == handlers'[i] # handlers[i]

Age(i) == now - handlers[i].entry.timestamp

\* C3: called one after another, checkRateLimit allows exactly the first
\* DAILY_LIMIT calls of a calendar date and denies every later one; the
\* stored record carries the current date and the number of calls allowed on
\* it, so the first call of a new date stores count 1.
C3_QuotaBoundary ==
    /\ seqAllowed = Min(seqCalls, DAILY_LIMIT)
    /\ last.present => (last.allowed <=> seqCalls <= DAILY_LIMIT)
    /\ seqCalls >= 1 =>
          rateRec = [present |-> TRUE, date |-> Today(now), count |-> seqAllowed]

\* The call after DAILY_LIMIT allowed ones is denied, on a date that began
\* with a record of the day before
C3_Witness ==
    /\ seqCalls = DAILY_LIMIT + 1
    /\ last.present /\ ~last.allowed
    /\ Today(now) > Today(StartMs)

\* C4: with QUICK_SCAN handlers interleaving at their awaits, no date has
\* more than DAILY_LIMIT allowed calls and the stored count is the number of
\* calls allowed on the stored date.
C4_NoLostUpdate ==
    /\ \A d \in Days : allowedOn[d] <= DAILY_LIMIT
    /\ rateRec.present => rateRec.count = allowedOn[rateRec.date]

\* C5: the stored count is always between 1 and DAILY_LIMIT, and a
\* checkRateLimit call that returns false writes nothing.
C5_CountInRange ==
    /\ [](rateRec.present => rateRec.count >= 1 /\ rateRec.count <= DAILY_LIMIT)
    /\ [][\A i \in Slots :
             handlers[i].pc = "rateRead" /\ handlers'[i].pc = "done"
             => rateRec' = rateRec]_vars

\* A quick scan was denied with the count at the ceiling
C5_Witness ==
    \E i \in Slots :
        /\ handlers[i].pc = "done"
        /\ handlers[i].resp.error = LimitError
        /\ rateRec.present /\ rateRec.count = DAILY_LIMIT

\* C6: a QUICK_SCAN that read an unexpired cached verdict is answered from
\* it in its next step: the counter is untouched, no fetch is issued, and the
\* quick result carries the verdict's overall and confidence.
C6_QuickHitFree ==
    [][\A i \in Slots :
          (/\ handlers[i].pc = "cacheRead"
           /\ handlers[i].kind = "QUICK_SCAN"
           /\ handlers[i].entry.present
           /\ Age(i) < CACHE_TTL
           /\ Steps(i))
          => /\ handlers'[i].pc = "done"
             /\ handlers'[i].resp.quick.present
             /\ handlers'[i].resp.quick.overall = handlers[i].entry.analysis.overall
             /\ handlers'[i].resp.quick.confidence = handlers[i].entry.analysis.confidence
             /\ rateRec' = rateRec
             /\ allowedOn' = allowedOn]_vars

\* A quick scan answered from the cache while today's count is at the ceiling
C6_Witness ==
    \E i \in Slots :
        /\ handlers[i].pc = "done"
        /\ handlers[i].kind = "QUICK_SCAN"
        /\ handlers[i].resp.cached = "true"
        /\ rateRec.present /\ rateRec.date = Today(now) /\ rateRec.count = DAILY_LIMIT

\* C7: no step of a deep handler reads or writes the counter, and a deep
\* request that misses the cache issues its fetch whatever the count is.
C7_DeepSkipsGuard ==
    [][\A i \in Slots :
          (Steps(i) /\ (IsDeepKind(handlers[i].kind) \/ IsDeepKind(handlers'[i].kind)))
          => /\ rateRec' = rateRec
             /\ allowedOn' = allowedOn
             /\ handlers'[i].rec = NoRec
             /\ (handlers[i].pc = "cacheRead" /\ ~handlers[i].entry.present
                 => handlers'[i].pc = "fetch")]_vars

\* A deep request is forwarded while today's count is at the ceiling
C7_Witness ==
    \E i \in Slots :
        /\ handlers[i].kind = "DEEP_ANALYZE"
        /\ handlers[i].pc = "fetch"
        /\ rateRec.present /\ rateRec.date = Today(now) /\ rateRec.count = DAILY_LIMIT

\* C8: whenever handleDeepAnalysis has a deep request at the backend, a quick
\* scan of that text passed checkRateLimit before.
C8_DeepWasCounted ==
    \A i \in Slots :
        IsDeepKind(handlers[i].kind) /\ handlers[i].pc \in {"fetch", "fetched"}
        => handlers[i].text \in quickCounted

\* C9: getCachedAnalysis, having read an entry, serves it only if its age is
\* below CACHE_TTL, and then unchanged; at age CACHE_TTL or more it removes
\* the key and the handler goes on as for an absent entry.
C9_NoStaleServe ==
    [][\A i \in Slots :
          /\ (handlers[i].pc = "cacheRead" /\ handlers[i].entry.present /\ Steps(i))
             => IF Age(i) >= CACHE_TTL
                THEN /\ ~cache'[hashText(handlers[i].text)].present
                     /\ handlers'[i].pc = "evicted"
                     /\ ~handlers'[i].resp.present
                ELSE /\ cache' = cache
                     /\ handlers'[i].pc \in {"done", "fetch"}
                     /\ handlers'[i].pc = "done" =>
                           IF handlers[i].kind = "QUICK_SCAN"
                           THEN handlers'[i].resp.quick = QuickOfCached(handlers[i].entry.analysis)
                           ELSE handlers'[i].resp.analysis = handlers[i].entry.analysis
          /\ (handlers[i].pc = "evicted" /\ Steps(i))
             => /\ handlers'[i].pc \in {"rateRead", "fetch"}
                /\ ~handlers'[i].resp.present]_vars

\* An entry of age CACHE_TTL or more was read and its key removed
C9_Witness ==
    \E i \in Slots :
        /\ handlers[i].pc = "evicted"
        /\ ~cache[hashText(handlers[i].text)].present

\* The deep handler in slot i has read an unexpired cached verdict
DeepReadFresh(i) ==
    /\ IsDeepKind(handlers[i].kind)
    /\ handlers[i].pc = "cacheRead"
    /\ handlers[i].entry.present
    /\ Age(i) < CACHE_TTL
    /\ Steps(i)

\* The cached verdict has the fields the request in slot i needs
HasRequired(i) ==
    handlers[i].ncom = 0 \/ handlers[i].entry.analysis.comment = "tone"

\* The request in slot i repeats the request that wrote the cache entry
Repeats(i) == deepBy[hashText(handlers[i].text)] = handlers[i].ncom

\* The deep handler answers with the cached verdict and calls nothing
ServedFromCache(i) ==
    /\ handlers'[i].pc = "done"
    /\ handlers'[i].resp.analysis = handlers[i].entry.analysis
    /\ handlers'[i].resp.cached = "true"
    /\ cache' = cache
    /\ redis' = redis

\* The backend answers a request whose text it has cached without analyzePost
BackendServesCached ==
    \A i \in Slots :
        (handlers[i].pc = "srvCache" /\ handlers[i].sentry.present /\ Steps(i))
        => /\ handlers'[i].pc = "fetched"
           /\ handlers'[i].data.analysis = handlers[i].sentry.analysis
           /\ redis' = redis

C1_OneDeepInFlight ==
    /\ [](\A p \in Ids :
             /\ deepOut[p] + deepStale[p] <= 1
             /\ deepOut[p] + deepStale[p] = 1 =>
                   postMetaMap[p].present /\ postMetaMap[p].deepPending)
    /\ [][\A p \in Ids :
             (postMetaMap[p].present
              /\ (postMetaMap[p].deepPending \/ postMetaMap[p].deepResult))
             => deepOut'[p] + deepStale'[p] <= deepOut[p] + deepStale[p]]_vars

\* triggerDeepAnalysis was called for a post whose deep request is in flight
\* and sent nothing
C1_Witness ==
    \E p \in Ids :
        /\ lastTrigger = [post |-> p, sent |-> FALSE]
        /\ deepOut[p] = 1
        /\ postMetaMap[p].deepPending

\* C2: per post at most one QUICK_SCAN message is ever sent; a pass that
\* finds the post in pendingPosts or processedPosts sends nothing for it;
\* pendingPosts and processedPosts are disjoint and processedPosts only grows.
C2_OneQuickScan ==
    /\ [](/\ \A p \in Ids : quickSent[p] <= 1 /\ quickOut[p] <= 1
          /\ pendingPosts \cap processedPosts = {})
    /\ [][/\ processedPosts \subseteq processedPosts'
          /\ \A p \in pendingPosts \cup processedPosts :
                quickSent'[p] = quickSent[p]]_vars

\* A pass has skipped one post that is pending and one that is processed
C2_Witness ==
    \E p, q \in Ids :
        /\ p \in lastPass /\ p \in pendingPosts /\ quickSent[p] = 1
        /\ q \in lastPass /\ q \in processedPosts /\ quickSent[q] = 1

(***************************************************************************)
(* C11: a deep request that carries comments and reads a fresh cached      *)
(* verdict whose commentAnalysis is missing or has an empty overallTone    *)
(* goes on to a new analysis, and the verdict that analysis returns        *)
(* replaces the cached entry; a deep request without comments is answered  *)
(* with the fresh cached verdict whatever its comment data.                *)
(***************************************************************************)
C11_IncompleteIsMiss ==
    [][\A i \in Slots :
          LET h == handlers[i] IN
          /\ (DeepReadFresh(i) /\ Steps(i)) =>
                 IF h.ncom > 0 /\ h.entry.analysis.comment \in {"absent", "notone"}
                 THEN handlers'[i].pc = "fetch" /\ ~handlers'[i].resp.present
                 ELSE /\ handlers'[i].pc = "done"
                      /\ handlers'[i].resp.analysis = h.entry.analysis
                      /\ handlers'[i].resp.cached = "true"
                      /\ cache' = cache
          /\ (IsDeepKind(h.kind) /\ h.pc = "fetched" /\ Steps(i)) =>
                 /\ cache'[hashText(h.text)].present
                 /\ cache'[hashText(h.text)].analysis = h.data.analysis
                 /\ handlers'[i].pc = "done"
                 /\ handlers'[i].resp.analysis = h.data.analysis]_vars

\* A request with comments is fetching although a fresh verdict, with a
\* commentAnalysis whose overallTone is empty, is still in the cache
C11_Witness ==
    \E i \in Slots :
        /\ IsDeepKind(handlers[i].kind)
        /\ handlers[i].pc = "fetch"
        /\ handlers[i].ncom > 0
        /\ Fresh(cache[hashText(handlers[i].text)], now)
        /\ cache[hashText(handlers[i].text)].analysis.comment = "notone"

\* The response r of the completion is no usable deep verdict: the call
\* threw, the content is empty or no JSON, or a required field is wrong
ReplyFailed(r) ==
    \/ r.kind \in {"throws", "empty", "unparsable"}
    \/ r.overall \notin {"green", "amber", "red"}
    \/ \E d \in Dimensions : r.dims[d] \notin {"green", "amber", "red"}
    \/ ~r.summary

\* analyzePost has returned
DeepDone == ap.fn = "analyzePost" /\ ap.pc = "done"

\* quickScan has returned
QuickDone == ap.fn = "quickScan" /\ ap.pc = "done"

(***************************************************************************)
(* C12: when the deep judgment call throws, returns empty content,         *)
(* unparsable JSON or JSON that fails validation, analyzePost returns (it  *)
(* does not throw) a complete verdict: overall and the five dimensions     *)
(* amber with a label, a string summary, confidence 0.3.                   *)
(***************************************************************************)
C12_FallbackComplete ==
    (ap.fn = "analyzePost" /\ ap.reply.kind # None /\ ReplyFailed(ap.reply)) =>
        /\ ap.pc = "done"
        /\ ap.out.present
        /\ ap.out.overall = "amber"
        /\ \A d \in Dimensions : ap.out.dims[d] = [rating |-> "amber", label |-> TRUE]
        /\ ap.out.summary \in {"given", "fallback"}
        /\ ap.out.confidence = 30

\* analyzePost has returned after a response whose tone dimension is missing
C12_Witness ==
    /\ DeepDone
    /\ ap.reply.kind = "json"
    /\ ap.reply.dims["tone"] = "missing"
    /\ ap.out.dims["tone"].rating = "amber"

(***************************************************************************)
(* C13: in both tiers a response whose overall rating or a dimension       *)
(* rating is outside green / amber / red makes the call count as failed:   *)
(* the failure fallback is returned, the rest of the response is not kept. *)
(***************************************************************************)
C13_InvalidRatingFails ==
    /\ (QuickDone /\ ap.reply.kind = "json" /\ ap.reply.overall \notin Ratings) =>
           /\ ap.out.summary = "unavailable"
           /\ ap.out.confidence = 30
    /\ (DeepDone /\ ap.reply.kind = "json"
           /\ (ap.reply.overall \notin Ratings
                 \/ \E d \in Dimensions : ap.reply.dims[d] = "purple")) =>
           /\ ap.out.summary = "fallback"
           /\ ap.out.confidence = 30

\* The confidence the response r asks for: clamped to [0,1], 0.7 when the
\* response has no numeric confidence
ClampedOrDefault(c) == IF c.num THEN Min(100, Max(0, c.val)) ELSE 70

(***************************************************************************)
(* C14: the confidence of every returned verdict lies in [0,1]; a numeric  *)
(* confidence outside the range is clamped to the nearest bound and a      *)
(* missing or non-numeric one becomes 0.7, in both tiers.                  *)
(***************************************************************************)
C14_ConfidenceClamped ==
    (ap.pc = "done") =>
        /\ ap.out.confidence >= 0 /\ ap.out.confidence <= 100
        /\ ~ReplyFailed(ap.reply) => ap.out.confidence = ClampedOrDefault(ap.reply.conf)

\* The indices of the search results that the counter sources cs come from
SourcesFrom(cs) == {cs[j].from : j \in 1 .. Len(cs)}

(***************************************************************************)
(* C15: with a non-empty list of search results and a relevantArticles     *)
(* array in the response, counterSources holds exactly the results at the  *)
(* marked indices, each with the stance assigned to it, and no result      *)
(* that was not marked; this includes the array that marks none.           *)
(***************************************************************************)
C15_OnlyMarkedSources ==
    (DeepDone /\ ~ReplyFailed(ap.reply) /\ Len(ap.results) > 0 /\ ap.reply.marksGiven) =>
        LET marks == ap.reply.marks
            cs    == ap.out.counterSources
            n     == Len(ap.results)
        IN /\ SourcesFrom(cs) = {marks[j].index : j \in 1 .. Len(marks)} \cap (0 .. n - 1)
           /\ \A j \in 1 .. Len(cs) : \E k \in 1 .. Len(marks) :
                  /\ marks[k].index = cs[j].from
                  /\ marks[k].stance # "" => cs[j].stance = marks[k].stance

(***************************************************************************)
(* C16: handling a quick-tier request invokes neither the vision adapter   *)
(* nor the search adapter, for any text length; exactly one judgment call  *)
(* in quick mode is made and the result has overall in green / amber / red *)
(* and confidence in [0,1].                                                *)
(***************************************************************************)
C16_QuickNoAdapters ==
    (ap.depth = "quick") =>
        /\ ap.calls.vision = 0
        /\ ap.calls.search = 0
        /\ ap.mode \in {None, "quick"}
        /\ (ap.pc = "done") =>
               /\ ap.calls.judge = 1
               /\ ap.out.overall \in Ratings
               /\ ap.out.confidence >= 0 /\ ap.out.confidence <= 100

(***************************************************************************)
(* C17: when the search adapter yields no results (skipped, not            *)
(* configured or failed) the returned verdict's counterSources is the      *)
(* empty list, whatever the judgment response contains.                    *)
(***************************************************************************)
C17_NoResultsNoSources ==
    (DeepDone /\ Len(ap.results) = 0) => ap.out.counterSources = <<>>

(***************************************************************************)
(* C18: a verdict returned by analyzePost has a commentAnalysis only if    *)
(* the call supplied at least one comment excerpt.                         *)
(***************************************************************************)
C18_CommentsOnlyIfSupplied ==
    (DeepDone /\ ap.ncom = 0) => ap.out.comment = "absent"

(***************************************************************************)
(* C19: however the vision adapter and the search adapter end (success,    *)
(* skipped, unavailable, error), analyzePost goes on to the judgment call  *)
(* and returns a verdict; an adapter that did not succeed contributes an   *)
(* empty description or an empty result list, never an error.              *)
(***************************************************************************)
C19_AdaptersDegrade ==
    [][/\ (ap.pc = "fanout" /\ ap' # ap) =>
              /\ ap'.pc = "judge"
              /\ ap'.mode = "deep"
              /\ ap'.vout # "text" => ~ap'.described
              /\ ap'.sout # "results" => ap'.results = <<>>
       /\ (ap.pc = "judge" /\ ap.fn = "analyzePost" /\ ap' # ap) =>
              /\ ap'.pc = "done"
              /\ ap'.calls.judge = 1
              /\ ap'.out.present]_vars

\* analyzePost has returned a verdict after both adapters threw
C19_Witness ==
    /\ DeepDone
    /\ ap.vout = "throws"
    /\ ap.sout = "throws"
    /\ ap.out.present
    /\ ap.calls.judge = 1

(***************************************************************************)
(* C20: a failure of the cache's backing store on a read or a write during *)
(* a deep request is not surfaced: the response of the deep handler never  *)
(* carries the store's error (a failed read counts as a miss, a failed     *)
(* write is ignored and the computed verdict is returned).                 *)
(***************************************************************************)
C20_StoreFailureHidden ==
    \A i \in Slots :
        (IsDeepKind(handlers[i].kind) /\ handlers[i].pc = "done") =>
            handlers[i].resp.error # StoreError

(***************************************************************************)
(* C21: when the read of the quota record fails, the guard treats the      *)
(* caller as not yet counted today: the quick handler that has missed the  *)
(* cache goes on towards the backend call and does not end with an error   *)
(* or a denial at that step.                                               *)
(***************************************************************************)
C21_QuotaReadFailPermissive ==
    [][\A i \in Slots :
          LET h == handlers[i] IN
          (/\ h.kind = "QUICK_SCAN"
           /\ (h.pc = "cacheRead" /\ ~h.entry.present) \/ h.pc = "evicted"
           /\ Steps(i)) => handlers'[i].pc \in {"rateRead", "fetch"}]_vars

(***************************************************************************)
(* C22: a quick request denied by the quota guard ends without a backend   *)
(* call, with an error and no verdict (quickResult null), and its response *)
(* differs from every response a failed analysis or a failed fetch gives:  *)
(* the denial's error message is carried by denials only.                  *)
(***************************************************************************)
C22_DenialDistinct ==
    [][\A i \in Slots :
          LET h == handlers[i]
              r == handlers'[i].resp
              denied == /\ h.pc = "rateRead"
                        /\ h.rec.present
                        /\ h.rec.date = h.today
                        /\ h.rec.count >= DAILY_LIMIT
          IN (h.kind = "QUICK_SCAN" /\ Steps(i) /\ handlers'[i].pc = "done") =>
                /\ denied => /\ ~r.quick.present
                             /\ r.error = "Daily limit reached. Upgrade to Pro for unlimited."
                             /\ redis' = redis /\ rateRec' = rateRec
                /\ ~denied => r.error # "Daily limit reached. Upgrade to Pro for unlimited."
                /\ (denied \/ h.pc = "fetch") => r.error # ""]_vars

\* A denied quick request has been answered
C22_Witness ==
    \E i \in Slots :
        /\ handlers[i].kind = "QUICK_SCAN"
        /\ handlers[i].pc = "done"
        /\ ~handlers[i].resp.quick.present
        /\ handlers[i].resp.error = LimitError
        /\ handlers[i].resp.cached = "unset"

\* The cache entry the handler in slot i has read was written by a request
\* for the same text with other comments
OtherWriter(i) ==
    /\ deepBy[hashText(handlers[i].text)] >= 0
    /\ deepBy[hashText(handlers[i].text)] # handlers[i].ncom

C28_RemainingReadOnly ==
    /\ [](remaining >= 0 =>
             remaining = IF rateRec.present /\ rateRec.date = Today(now)
                         THEN (IF 200 - rateRec.count < 0 THEN 0 ELSE 200 - rateRec.count)
                         ELSE 200)
    /\ [][/\ remaining' >= 0 => rateRec' = rateRec
          /\ (remaining >= 0 /\ seqCalls' = seqCalls + 1) =>
                (last'.allowed <=> remaining > 0)]_vars

\* GET_REMAINING has answered 0 on the day the limit was reached
C28_Witness ==
    /\ remaining = 0
    /\ rateRec.present
    /\ rateRec.date = Today(now)
    /\ seqAllowed = DAILY_LIMIT

\* The handlers in slots i and j run deep requests for the same text
DeepTwins(i, j) ==
    /\ i # j
    /\ IsDeepKind(handlers[i].kind) /\ IsDeepKind(handlers[j].kind)
    /\ handlers[i].text = handlers[j].text
    /\ handlers[j].pc \in {"cacheRead", "fetch", "fetched"}

(***************************************************************************)
(* C29: two deep requests for the same text that are under way together    *)
(* are not coalesced: each one that misses the cache issues its own        *)
(* backend call, the answer to one is stored and returned without touching *)
(* the other, and the cache entry holds the verdict of the request that    *)
(* wrote last.                                                             *)
(***************************************************************************)
C29_NotCoalesced ==
    /\ [](\A i \in Slots :
             (/\ IsDeepKind(handlers[i].kind)
              /\ handlers[i].pc = "done"
              /\ handlers[i].resp.cached = "false") =>
                 /\ cache[hashText(handlers[i].text)].present
                 /\ cache[hashText(handlers[i].text)].analysis = handlers[i].resp.analysis)
    /\ [][\A i, j \in Slots :
             DeepTwins(i, j) =>
                /\ (handlers[i].pc = "cacheRead" /\ ~handlers[i].entry.present /\ Steps(i))
                       => handlers'[i].pc = "fetch"
                /\ (handlers[i].pc = "fetched" /\ Steps(i)) =>
                       /\ handlers'[i].pc = "done"
                       /\ handlers'[i].resp.error = ""
                       /\ handlers'[i].resp.analysis = handlers[i].data.analysis
                       /\ handlers'[j] = handlers[j]]_vars

\* One of two deep requests for the same text has stored and returned its
\* verdict while the other holds a different verdict it is about to store
C29_Witness ==
    \E i, j \in Slots :
        /\ i # j
        /\ IsDeepKind(handlers[i].kind) /\ IsDeepKind(handlers[j].kind)
        /\ handlers[i].text = handlers[j].text
        /\ handlers[i].pc = "done"
        /\ handlers[i].resp.cached = "false"
        /\ handlers[j].pc = "fetched"
        /\ handlers[j].data.analysis # handlers[i].resp.analysis
        /\ cache[hashText(handlers[i].text)].analysis = handlers[i].resp.analysis

(***************************************************************************)
(* C30: in analyzePost the judgment call is issued only after the vision   *)
(* adapter and the search adapter have both completed (result, skip or     *)
(* failure), and the adapters are started together: every adapter that is  *)
(* called at all is in flight right after the fan-out starts, neither      *)
(* waiting for the other.                                                  *)
(***************************************************************************)
C30_JudgeAfterBoth ==
    /\ []((ap.fn = "analyzePost" /\ ap.pc \in {"judge", "done"}) =>
             ap.vfly = "settled" /\ ap.sfly = "settled")
    /\ [][(ap.pc = "fanout" /\ ap' # ap) =>
             /\ (ap.visuals \in {"thumb", "images"} /\ ap.visionUp) => ap'.vfly = "flying"
             /\ (ap.searchUp /\ ap.len > 60) => ap'.sfly = "flying"
             /\ ap'.pc # "judge"]_vars

\* Both adapters are in flight at the same time
C30_Witness ==
    /\ ap.fn = "analyzePost"
    /\ ap.pc = "adapters"
    /\ ap.vfly = "flying"
    /\ ap.sfly = "flying"
    /\ ap.calls.judge = 0

(***************************************************************************)
(* C24: when a deep request ends in an error or without an analysis, the   *)
(* badge's rating stays as the quick verdict set it and the post's panel   *)
(* shows an error state: no panel of a post is in the loading state while  *)
(* no deep request for the post is in flight.                              *)
(***************************************************************************)
C24_DeepErrorShown ==
    /\ \A p \in Ids : panel[p] = "loading" => deepOut[p] + deepStale[p] > 0
    /\ \A p \in Ids : (postMetaMap[p].present /\ ~postMetaMap[p].deepResult
                        /\ badge[p] = "signal")
                          => rating[p] = postMetaMap[p].quickResult

(***************************************************************************)
(* C26: at every moment at most one panel in the document is visible, and  *)
(* a visible panel is the one activePanel refers to.                       *)
(***************************************************************************)
C26_OneOpenPanel ==
    /\ Cardinality(visible) <= 1
    /\ \A p \in visible : panel[p] # "none" /\ activePanel = p

\* Both posts have a panel; the panel of p2 is shown, the panel of p1 was
\* shown before and has been hidden
C26_Witness ==
    /\ \A p \in Ids : panel[p] # "none"
    /\ visible = {"p2"}
    /\ activePanel = "p2"

(***************************************************************************)
(* C23: the quick callback that stores an amber or red verdict calls       *)
(* triggerDeepAnalysis itself, so the deep request of the post is sent and *)
(* pending when the callback returns, before any hover or click; for a     *)
(* post whose quick verdict is green a deep request is sent only by the    *)
(* hover timer firing (no mouseleave during the whole delay) or by a       *)
(* click on the badge.                                                     *)
(***************************************************************************)
C23_AutoEscalation ==
    [][\A p \in Ids :
         /\ (/\ postMetaMap[p].present /\ postMetaMap'[p].present
             /\ postMetaMap[p].quickResult = None
             /\ postMetaMap'[p].quickResult \in {"amber", "red"})
               => /\ postMetaMap'[p].deepPending
                  /\ deepOut'[p] = deepOut[p] + 1
         /\ (/\ deepOut'[p] > deepOut[p]
             /\ postMetaMap'[p].quickResult = "green")
               => \/ hoverTimer[p] /\ ~hoverTimer'[p]
                  \/ p \notin visible /\ p \in visible' /\ activePanel' = p]_vars

\* The deep request of an amber post nobody points at is pending, and the
\* deep request of a green post is pending after a hover or a click
C23_Witness ==
    /\ postMetaMap["p2"].present
    /\ postMetaMap["p2"].quickResult = "amber"
    /\ postMetaMap["p2"].deepPending
    /\ deepOut["p2"] = 1
    /\ postMetaMap["p1"].present
    /\ postMetaMap["p1"].quickResult = "green"
    /\ postMetaMap["p1"].deepPending

(***************************************************************************)
(* C25: the callback of a deep response with an analysis sets              *)
(* meta.deepResult, makes the badge's rating the deep verdict's overall    *)
(* and leaves one full panel for the post, shown exactly if the post's     *)
(* loading panel was visible before; from then on the badge's rating is    *)
(* not set to anything else and meta.deepResult stays set.                 *)
(***************************************************************************)
C25_DeepReady ==
    [][\A p \in Ids :
         /\ (/\ postMetaMap[p].present /\ postMetaMap'[p].present
             /\ ~postMetaMap[p].deepResult /\ postMetaMap'[p].deepResult)
               => /\ deepOut'[p] = deepOut[p] - 1
                  /\ ~postMetaMap'[p].deepPending
                  /\ badge[p] # "none" => rating'[p] \in DeepReplies \ {"error"}
                  /\ panel'[p] = "full"
                  /\ (p \in visible') <=> (panel[p] = "loading" /\ p \in visible)
         /\ (postMetaMap[p].present /\ postMetaMap[p].deepResult)
               => /\ postMetaMap'[p].present /\ postMetaMap'[p].deepResult
                  /\ rating'[p] \in {rating[p], None}]_vars

(***************************************************************************)
(* C31: the vision adapter is called at most once per deep request, and    *)
(* only for a request that carries a video thumbnail or at least one       *)
(* image; a request with neither never reaches it.                         *)
(***************************************************************************)
C31_VisionOnlyWithMedia ==
    /\ ap.calls.vision <= 1
    /\ ap.calls.vision > 0 => ap.fn = "analyzePost" /\ ap.visuals \in {"thumb", "images"}
    /\ ap.vfly = "flying" => ap.visuals \in {"thumb", "images"}
    /\ ap.visuals \in {"none", "bare"} => ap.vout \in {None, "skipped"} /\ ~ap.described

\* A request with a thumbnail has called the adapter once and has returned
C31_Witness ==
    /\ ap.fn = "analyzePost"
    /\ ap.pc = "done"
    /\ ap.visuals = "thumb"
    /\ ap.calls.vision = 1

(***************************************************************************)
(* C32: the search adapter is called at most once per deep request and     *)
(* only for a text longer than 60 characters; a text of 60 characters or   *)
(* fewer causes no search call and an empty result list.                   *)
(***************************************************************************)
C32_SearchOnlyLongText ==
    /\ ap.calls.search <= 1
    /\ ap.calls.search > 0 => ap.fn = "analyzePost" /\ ap.len > SearchMinLen
    /\ ap.sfly = "flying" => ap.len > SearchMinLen
    /\ ap.len <= SearchMinLen => ap.calls.search = 0 /\ ap.results = <<>>

\* A deep request with a text of exactly 60 characters has gone through the
\* fan-out with the search adapter configured
C32_Witness ==
    /\ ap.fn = "analyzePost"
    /\ ap.pc \in {"judge", "done"}
    /\ ap.len = SearchMinLen
    /\ ap.searchUp
    /\ ap.sout = "skipped"

\* extractComments on the article found through the badge of p: nothing is
\* observed when the badge is not in the document
Observed(p) == IF badge[p] # "none" THEN domComments[p] ELSE 0

(***************************************************************************)
(* C33: the step that sends a deep request for a post leaves in            *)
(* meta.comments, which the request carries, the larger of the stored      *)
(* comments and the comments re-extracted from the page at that moment;    *)
(* the stored comments of a content id never become fewer.  As stated, for *)
(* every content id in postMetaMap:                                        *)
(***************************************************************************)
C33_AsStated ==
    [][\A p \in Ids :
         /\ (deepOut'[p] > deepOut[p])
               => /\ postMetaMap[p].present /\ postMetaMap'[p].present
                  /\ postMetaMap'[p].comments = Max(postMetaMap[p].comments, Observed(p))
         /\ (postMetaMap[p].present /\ postMetaMap'[p].present)
               => postMetaMap'[p].comments >= postMetaMap[p].comments]_vars

\* C33, for the content ids whose quick request has been sent: a post that
\* processPost gave a badge is in pendingPosts or processedPosts from then
\* on, and its PostMeta object is never stored anew
C33_LargerCommentSet ==
    [][\A p \in Ids :
         /\ (deepOut'[p] > deepOut[p])
               => /\ postMetaMap[p].present /\ postMetaMap'[p].present
                  /\ postMetaMap'[p].comments = Max(postMetaMap[p].comments, Observed(p))
         /\ (/\ postMetaMap[p].present /\ postMetaMap'[p].present
             /\ p \in pendingPosts \cup processedPosts)
               => postMetaMap'[p].comments >= postMetaMap[p].comments]_vars

\* A deep request is out that carries more comments than the page shows now
C33_Witness ==
    /\ postMetaMap["p1"].present
    /\ postMetaMap["p1"].deepPending
    /\ deepOut["p1"] = 1
    /\ postMetaMap["p1"].comments > domComments["p1"]
    /\ badge["p1"] = "signal"

(***************************************************************************)
(* C34: at most one debounce timer is pending at any time; a burst of      *)
(* mutations that add nodes, each less than 300 ms after the one before,   *)
(* has its one timer pending until processVisiblePosts runs, the pass runs *)
(* 300 ms after the last mutation of the burst, and no second pass runs    *)
(* unless nodes were added again.                                          *)
(***************************************************************************)
C34_OnePassPerBurst ==
    /\ [](Cardinality(timers) <= 1)
    /\ []((lastAdd > passAt) => timers = {lastAdd + DebounceMs})
    /\ []((lastAdd < passAt) => timers = {})
    /\ [][passAt' # passAt =>
            /\ now = lastAdd + DebounceMs
            /\ lastAdd >= passAt
            /\ passAt' = now]_vars

\* Two articles were added in one burst that went on after the page's first
\* 100 ms, and the pass has run 300 ms after the last of them
C34_Witness ==
    /\ textLen["p1"] > 0 /\ textLen["p2"] > 0
    /\ passAt = lastAdd + DebounceMs
    /\ passAt = StartMs + DebounceMs + (DebounceMs \div 3)
    /\ timers = {}

(***************************************************************************)
(* C35: meta.deepPending is true exactly while a DEEP_ANALYZE request for  *)
(* the content id awaits its callback; the callback, with or without an    *)
(* analysis, leaves it false and sends nothing, and a request for a post   *)
(* that has its quick verdict already is sent only by the hover timer or   *)
(* by a click on the badge.                                                *)
(***************************************************************************)
C35_PendingWhileInFlight ==
    /\ [](\A p \in Ids : postMetaMap[p].present =>
             (postMetaMap[p].deepPending <=> deepOut[p] > 0))
    /\ [][\A p \in Ids :
            /\ deepOut'[p] < deepOut[p]
                  => ~postMetaMap'[p].deepPending /\ deepOut'[p] = 0
            /\ (/\ deepOut'[p] > deepOut[p]
                /\ postMetaMap[p].present
                /\ postMetaMap[p].quickResult # None)
                  => \/ hoverTimer[p] /\ ~hoverTimer'[p]
                     \/ p \notin visible /\ p \in visible' /\ activePanel' = p]_vars

\* The pre-fetch of an amber post has failed (the hover timer could be
\* started afterwards) and a click has sent the request again
C35_Witness ==
    /\ postMetaMap["p1"].present
    /\ postMetaMap["p1"].quickResult = "amber"
    /\ ~postMetaMap["p1"].deepResult
    /\ postMetaMap["p1"].deepPending
    /\ deepOut["p1"] = 1
    /\ hoverTimer["p1"]
    /\ panel["p1"] = "loading"

\* The quick request of p has ended without a verdict
QuickFailed(p) ==
    /\ p \in processedPosts
    /\ postMetaMap[p].present
    /\ postMetaMap[p].quickResult = None

(***************************************************************************)
(* C36: a post whose quick request ended in an error or a quota denial     *)
(* keeps the error badge as long as the page keeps the badge: the manager  *)
(* never changes it again, never sends a deep request for the post and     *)
(* never sends its quick request again.                                    *)
(***************************************************************************)
C36_ErrorIsFinal ==
    /\ [](\A p \in Ids : badge[p] = "error" => QuickFailed(p))
    /\ [](\A p \in Ids : QuickFailed(p) =>
             /\ deepOut[p] = 0
             /\ ~postMetaMap[p].deepPending
             /\ ~postMetaMap[p].deepResult
             /\ ~hoverTimer[p]
             /\ panel[p] = "none")
    /\ [][\A p \in Ids : QuickFailed(p) =>
            /\ QuickFailed(p)'
            /\ quickSent'[p] = quickSent[p]
            /\ badge[p] = "error" => badge'[p] \in {"error", "none"}
            /\ badge[p] = "none" => badge'[p] = "none"]_vars

\* A later pass has met the post with the error badge and left it alone
C36_Witness ==
    /\ badge["p1"] = "error"
    /\ QuickFailed("p1")
    /\ "p1" \in lastPass
    /\ quickSent["p1"] = 1

(***************************************************************************)
(* C37: once the quick callback of a post has run, the post's badge, if it *)
(* is still in the document, is not in the loading state: it is a signal   *)
(* badge or an error badge, whatever response the callback received.       *)
(***************************************************************************)
C37_NoLoadingAfterQuick ==
    [][\A p \in Ids :
         (quickOut'[p] < quickOut[p] /\ badge[p] # "none")
            => badge'[p] \in {"signal", "error"}]_vars

\* The handler in slot i has read the unexpired fallback verdict and goes on
ReadsFallback(i) ==
    /\ handlers[i].pc = "cacheRead"
    /\ handlers[i].entry.present
    /\ Age(i) < CACHE_TTL
    /\ handlers[i].entry.analysis = VerdictFallback
    /\ Steps(i)

\* The fallback verdict leaves the backend as a successful analysis and is
\* stored there and in the worker like any other verdict
FallbackStored ==
    \A i \in Slots :
        LET h == handlers[i] IN
        /\ (/\ h.pc = "srvCache" /\ handlers'[i].pc = "fetched"
            /\ ~handlers'[i].data.cached
            /\ handlers'[i].data.analysis = VerdictFallback)
              => redis'[generateCacheKey(h.text)] =
                    [present |-> TRUE, analysis |-> VerdictFallback, storedAt |-> now]
        /\ (/\ IsDeepKind(h.kind) /\ h.pc = "fetched" /\ Steps(i)
            /\ h.data.analysis = VerdictFallback)
              => /\ handlers'[i].pc = "done"
                 /\ handlers'[i].resp = DeepResp(VerdictFallback, "", "false")
                 /\ cache'[hashText(h.text)] =
                       [present |-> TRUE, analysis |-> VerdictFallback, timestamp |-> now]
        /\ (h.kind = "QUICK_SCAN" /\ ReadsFallback(i))
              => /\ handlers'[i].pc = "done"
                 /\ handlers'[i].resp = QuickResp(QuickOfCached(VerdictFallback), "", "true")
                 /\ cache' = cache /\ redis' = redis

C39_EvictsOnlyRead ==
    [][\A i \in Slots :
          LET h == handlers[i]
              k == hashText(h.text)
          IN  (/\ h.pc = "cacheRead" /\ Expired(h.entry, now) /\ Steps(i)
               /\ cache[k].present /\ cache[k] # h.entry)
                 => cache'[k] = cache[k]]_vars

(***************************************************************************)
(* C40: checkRateLimit writes the incremented count in the step that lets  *)
(* the quick request go on to the backend, no step lowers the count of a   *)
(* date, and a failed backend call gives nothing back: the stored count is *)
(* the number of quick requests that passed the guard on the stored date,  *)
(* whatever became of them.                                                *)
(***************************************************************************)
C40_FailureStillCounts ==
    /\ [](rateRec.present => rateRec.count = allowedOn[rateRec.date])
    /\ [][\A i \in Slots :
            LET h == handlers[i] IN
            /\ (h.pc = "rateRead" /\ handlers'[i].pc = "fetch")
                  => /\ rateRec'.present
                     /\ rateRec'.date = h.today
                     /\ rateRec'.count >= 1
                     /\ allowedOn'[h.today] = allowedOn[h.today] + 1
            /\ (h.kind = "QUICK_SCAN" /\ h.pc \in {"fetch", "fetched"} /\ Steps(i))
                  => rateRec' = rateRec /\ allowedOn' = allowedOn]_vars
    /\ [][(rateRec.present /\ rateRec'.present /\ rateRec'.date = rateRec.date)
            => rateRec'.count >= rateRec.count]_vars

====
